---- MODULE Spec2Model ----
(***************************************************************************)
(* Model of the structured screenshot-to-text converter (src/ss_txt2.py).  *)
(*                                                                         *)
(* A text is a sequence of one-character strings.  The image decoder, the  *)
(* OpenCV detector and the Tesseract engine are the environment: an image  *)
(* is the record of what they answer for it.  Everything the script itself *)
(* computes on those answers (grouping, selection, de-duplication, the     *)
(* substitution rules, the merge, the batch loop) is computed here as the  *)
(* code computes it.                                                       *)
(***************************************************************************)
EXTENDS Integers, Sequences, FiniteSets, TLC

(***************************************************************************)
(* Characters and the string primitives of Python used by the script.      *)
(* The texts of the model are written with ASCII letters, digits,          *)
(* punctuation, the blank, the tab, the line feed and the sign ©; the      *)
(* character classes are given on that alphabet.                           *)
(***************************************************************************)
Digits == {"0", "1", "2", "3", "4", "5", "6", "7", "8", "9"}

Lowers == {"a", "b", "c", "d", "e", "f", "g", "h", "i", "j", "k", "l", "m",
           "n", "o", "p", "q", "r", "s", "t", "u", "v", "w", "x", "y", "z"}

Uppers == {"A", "B", "C", "D", "E", "F", "G", "H", "I", "J", "K", "L", "M",
           "N", "O", "P", "Q", "R", "S", "T", "U", "V", "W", "X", "Y", "Z"}

LowerOf ==
    [c \in Uppers |->
        CASE c = "A" -> "a" [] c = "B" -> "b" [] c = "C" -> "c" [] c = "D" -> "d"
          [] c = "E" -> "e" [] c = "F" -> "f" [] c = "G" -> "g" [] c = "H" -> "h"
          [] c = "I" -> "i" [] c = "J" -> "j" [] c = "K" -> "k" [] c = "L" -> "l"
          [] c = "M" -> "m" [] c = "N" -> "n" [] c = "O" -> "o" [] c = "P" -> "p"
          [] c = "Q" -> "q" [] c = "R" -> "r" [] c = "S" -> "s" [] c = "T" -> "t"
          [] c = "U" -> "u" [] c = "V" -> "v" [] c = "W" -> "w" [] c = "X" -> "x"
          [] c = "Y" -> "y" [] c = "Z" -> "z"]

\* the character class \s of re
IsSpace(c) == c \in {" ", "\n", "\t"}

\* the character class \w of re
IsWordCh(c) == c \in Digits \cup Lowers \cup Uppers \cup {"_"}

\* str.isalnum() of a one-character string
IsAlnum(c) == c \in Digits \cup Lowers \cup Uppers

\* t[i] (1-based), or "" outside the text
Ch(t, i) == IF i >= 1 /\ i <= Len(t) THEN t[i] ELSE ""

\* str.lower()
Lower(t) == [i \in 1..Len(t) |-> IF t[i] \in Uppers THEN LowerOf[t[i]] ELSE t[i]]

RECURSIVE LStrip(_)
LStrip(t) == IF t # <<>> /\ IsSpace(Head(t)) THEN LStrip(Tail(t)) ELSE t

\* str.rstrip()
RECURSIVE RStrip(_)
RStrip(t) ==
    IF t # <<>> /\ IsSpace(t[Len(t)]) THEN RStrip(SubSeq(t, 1, Len(t) - 1)) ELSE t

\* str.strip()
Strip(t) == LStrip(RStrip(t))

\* a whitespace character or the outside of the text
IsGap(c) == c = "" \/ IsSpace(c)

\* the indices of t that lie in the set keep, in order
Positions(t, keep) == SelectSeq([i \in 1..Len(t) |-> i], LAMBDA i : i \in keep)

\* str.split('\n'): the lines of a text, always at least one
SplitLines(t) ==
    LET breaks == Positions(t, {i \in 1..Len(t) : t[i] = "\n"})
        from(k) == IF k = 1 THEN 1 ELSE breaks[k - 1] + 1
        to(k) == IF k = Len(breaks) + 1 THEN Len(t) ELSE breaks[k] - 1
    IN [k \in 1..(Len(breaks) + 1) |-> SubSeq(t, from(k), to(k))]

\* sep.join(parts)
RECURSIVE Join(_, _)
Join(sep, parts) ==
    IF parts = <<>> THEN <<>>
    ELSE IF Len(parts) = 1 THEN parts[1]
    ELSE parts[1] \o sep \o Join(sep, Tail(parts))

\* str.split(): the words of a text, split on whitespace runs
Words(t) ==
    LET starts == Positions(t, {i \in 1..Len(t) : ~IsSpace(t[i]) /\ IsGap(Ch(t, i - 1))})
        ends == Positions(t, {i \in 1..Len(t) : ~IsSpace(t[i]) /\ IsGap(Ch(t, i + 1))})
    IN [k \in 1..Len(starts) |-> SubSeq(t, starts[k], ends[k])]

Range(s) == {s[i] : i \in DOMAIN s}

Max2(a, b) == IF a >= b THEN a ELSE b

Min2(a, b) == IF a <= b THEN a ELSE b

Abs(a) == IF a >= 0 THEN a ELSE -a

(***************************************************************************)
(* re.sub for the patterns of the script.  A pattern is a sequence of      *)
(* atoms; a class atom is greedy and backtracks, as in re.                 *)
(***************************************************************************)
NoMax == 1000000

Lit(c) == [k |-> "lit", c |-> c, min |-> 1, max |-> 1]

AtomB == [k |-> "b", c |-> "", min |-> 0, max |-> 0]            \* \b

AtomBol == [k |-> "bol", c |-> "", min |-> 0, max |-> 0]        \* ^

AtomBolM == [k |-> "bolm", c |-> "", min |-> 0, max |-> 0]      \* ^ (MULTILINE)

AtomEolM == [k |-> "eolm", c |-> "", min |-> 0, max |-> 0]      \* $ (MULTILINE)

AtomS == [k |-> "cls", c |-> "s", min |-> 1, max |-> 1]         \* \s

AtomSStar == [k |-> "cls", c |-> "s", min |-> 0, max |-> NoMax] \* \s*

AtomSPlus == [k |-> "cls", c |-> "s", min |-> 1, max |-> NoMax] \* \s+

AtomDPlus == [k |-> "cls", c |-> "d", min |-> 1, max |-> NoMax] \* \d+

AtomAZ == [k |-> "cls", c |-> "az", min |-> 1, max |-> 1]       \* [a-z]

AtomNlRun == [k |-> "cls", c |-> "n", min |-> 3, max |-> NoMax] \* \n{3,}

InClass(cls, c) ==
    CASE cls = "s" -> IsSpace(c)
      [] cls = "d" -> c \in Digits
      [] cls = "az" -> c \in Lowers
      [] cls = "n" -> c = "\n"

\* the pattern atoms for a literal word
Lits(w) == [i \in 1..Len(w) |-> Lit(w[i])]

\* \b holds between t[i-1] and t[i]
AtWordBoundary(t, i) == IsWordCh(Ch(t, i - 1)) # IsWordCh(Ch(t, i))

RECURSIVE RunLen(_, _, _)
RunLen(cls, t, i) ==
    IF i <= Len(t) /\ InClass(cls, t[i]) THEN 1 + RunLen(cls, t, i + 1) ELSE 0

\* The index after the match of pat[k..] that starts at t[i], 0 if there is none.
RECURSIVE MatchFrom(_, _, _, _)
RECURSIVE TryCounts(_, _, _, _, _)
MatchFrom(pat, k, t, i) ==
    IF k > Len(pat) THEN i
    ELSE LET a == pat[k] IN
         CASE a.k = "lit" ->
                IF Ch(t, i) = a.c THEN MatchFrom(pat, k + 1, t, i + 1) ELSE 0
           [] a.k = "b" ->
                IF AtWordBoundary(t, i) THEN MatchFrom(pat, k + 1, t, i) ELSE 0
           [] a.k = "bol" ->
                IF i = 1 THEN MatchFrom(pat, k + 1, t, i) ELSE 0
           [] a.k = "bolm" ->
                IF i = 1 \/ Ch(t, i - 1) = "\n"
                THEN MatchFrom(pat, k + 1, t, i) ELSE 0
           [] a.k = "eolm" ->
                IF i = Len(t) + 1 \/ Ch(t, i) = "\n"
                THEN MatchFrom(pat, k + 1, t, i) ELSE 0
           [] a.k = "cls" ->
                TryCounts(pat, k, t, i, Min2(RunLen(a.c, t, i), a.max))

TryCounts(pat, k, t, i, n) ==
    IF n < pat[k].min THEN 0
    ELSE LET e == MatchFrom(pat, k + 1, t, i + n) IN
         IF e # 0 THEN e ELSE TryCounts(pat, k, t, i, n - 1)

\* The replacement of a match m: a literal, the digits of m (a \1 that is the
\* \d+ group), or the first character of m followed by "1" (\g<1>1).
Replacement(rule, m) ==
    CASE rule.rep = "lit" -> rule.lit
      [] rule.rep = "digits" -> SelectSeq(m, LAMBDA c : c \in Digits)
      [] rule.rep = "first1" -> <<m[1], "1">>

\* re.sub(pattern, replacement, text): leftmost, non-overlapping matches.
\* ends[i] is the index after the match that starts at t[i] (0: no match); the
\* scan copies the text up to the next match, replaces it and goes on after it.
RECURSIVE SubFrom(_, _, _, _)
SubFrom(rule, t, ends, i) ==
    LET starts == {j \in i..Len(t) : ends[j] > j} IN
    IF starts = {} THEN SubSeq(t, i, Len(t))
    ELSE LET j == CHOOSE m \in starts : \A other \in starts : m <= other IN
         SubSeq(t, i, j - 1) \o Replacement(rule, SubSeq(t, j, ends[j] - 1))
             \o SubFrom(rule, t, ends, ends[j])

ReSub(rule, t) ==
    SubFrom(rule, t, [i \in 1..Len(t) |-> MatchFrom(rule.pat, 1, t, i)], 1)

RuleLit(pat, lit) == [pat |-> pat, rep |-> "lit", lit |-> lit]

RuleDigits(pat) == [pat |-> pat, rep |-> "digits", lit |-> <<>>]

RuleFirst1(pat) == [pat |-> pat, rep |-> "first1", lit |-> <<>>]

\* \bWORD\b -> lit
RuleWord(w, lit) == RuleLit(<<AtomB>> \o Lits(w) \o <<AtomB>>, lit)

(***************************************************************************)
(* fix_common_ocr_errors: the fixed table of substitutions, in code order, *)
(* then the removal of artifact lines.                                     *)
(***************************************************************************)
\* "^X\s" -> "x " for the six misread single letters (lines 340-345)
RuleLineStart(w, lit) == RuleLit(<<AtomBol>> \o Lits(w) \o <<AtomS>>, lit)

\* "\sX\s" -> " x " (lines 346-351)
RuleSpaced(w, lit) == RuleLit(<<AtomS>> \o Lits(w) \o <<AtomS>>, lit)

\* "X\s+b\s+Y", the misread table header "a b c" (lines 354-357)
HeaderAtoms(w1, w2) ==
    Lits(w1) \o <<AtomSPlus, Lit("b"), AtomSPlus>> \o Lits(w2)

CircleRules ==
    << RuleDigits(<<Lit("©"), AtomSStar, AtomDPlus>>),
       RuleLit(<<Lit("©"), AtomSStar, Lit(")")>>, <<")">>),
       RuleLit(<<Lit("©"), AtomSStar>>, <<>>),
       RuleLit(<<Lit("©")>>, <<>>) >>

LeadingLetterRules ==
    << RuleWord(<<"I", "c">>, <<"c">>),
       RuleWord(<<"I", "a">>, <<"a">>),
       RuleWord(<<"I", "b">>, <<"b">>),
       RuleWord(<<"l", "a">>, <<"a">>),
       RuleWord(<<"l", "c">>, <<"c">>),
       RuleWord(<<"l", "b">>, <<"b">>),
       RuleLineStart(<<"I", "a">>, <<"a", " ">>),
       RuleLineStart(<<"I", "c">>, <<"c", " ">>),
       RuleLineStart(<<"I", "b">>, <<"b", " ">>),
       RuleLineStart(<<"l", "a">>, <<"a", " ">>),
       RuleLineStart(<<"l", "c">>, <<"c", " ">>),
       RuleLineStart(<<"l", "b">>, <<"b", " ">>),
       RuleSpaced(<<"I", "a">>, <<" ", "a", " ">>),
       RuleSpaced(<<"I", "c">>, <<" ", "c", " ">>),
       RuleSpaced(<<"I", "b">>, <<" ", "b", " ">>),
       RuleSpaced(<<"l", "a">>, <<" ", "a", " ">>),
       RuleSpaced(<<"l", "c">>, <<" ", "c", " ">>),
       RuleSpaced(<<"l", "b">>, <<" ", "b", " ">>) >>

HeaderRules ==
    << RuleLit(<<AtomB>> \o HeaderAtoms(<<"I", "a">>, <<"I", "c">>) \o <<AtomB>>,
               <<"a", " ", "b", " ", "c">>),
       RuleLit(<<AtomB>> \o HeaderAtoms(<<"l", "a">>, <<"l", "c">>) \o <<AtomB>>,
               <<"a", " ", "b", " ", "c">>),
       RuleLit(<<AtomBolM>> \o HeaderAtoms(<<"I", "a">>, <<"I", "c">>)
                   \o <<AtomSStar, AtomEolM>>,
               <<"a", " ", "b", " ", "c">>),
       RuleLit(<<AtomBolM>> \o HeaderAtoms(<<"l", "a">>, <<"l", "c">>)
                   \o <<AtomSStar, AtomEolM>>,
               <<"a", " ", "b", " ", "c">>) >>

EmptyCircleRules ==
    << RuleWord(<<"O", "o">>, <<>>),
       RuleLit(<<AtomBolM, Lit("O"), Lit("o"), AtomSStar, AtomEolM>>, <<>>),
       RuleDigits(<<AtomB, Lit("O"), Lit("s"), AtomDPlus, AtomB>>) >>

LetterOneRules ==
    << RuleFirst1(<<AtomB, AtomAZ, Lit("i"), AtomB>>),
       RuleFirst1(<<AtomB, AtomAZ, Lit("l"), AtomB>>),
       RuleWord(<<"l", "o", "n">>, <<"c", "1">>),
       RuleWord(<<"1", "t">>, <<"a", "1">>),
       RuleWord(<<"a", "t">>, <<"a", "1">>),
       RuleFirst1(<<AtomB, AtomAZ, Lit("t"), AtomB>>) >>

DigitSeq == <<"0", "1", "2", "3", "4", "5", "6", "7", "8", "9">>

\* the corrections dict (lines 393-416), in insertion order
corrections ==
    [i \in 1..10 |-> RuleWord(<<"l", DigitSeq[i]>>, <<DigitSeq[i]>>)]
    \o [i \in 1..10 |-> RuleWord(<<"O", DigitSeq[i]>>, <<DigitSeq[i]>>)]
    \o << RuleWord(<<"I", "0">>, <<"1", "0">>),
          RuleWord(<<"I", "1">>, <<"1", "1">>) >>

\* the rules with the corrections dict applied before the letter-for-one
\* rules instead of after them
CorrectionsFirst ==
    CircleRules \o LeadingLetterRules \o HeaderRules \o EmptyCircleRules
        \o corrections \o LetterOneRules

SubstitutionRules ==
    CircleRules \o LeadingLetterRules \o HeaderRules \o EmptyCircleRules
        \o LetterOneRules \o corrections

\* the substitutions rules[k..] applied to t one after the other; the test on
\* the length of next has the text of a rule computed before the next rule
\* is applied to it
RECURSIVE ApplyRules(_, _, _)
ApplyRules(rules, k, t) ==
    IF k > Len(rules) THEN t
    ELSE LET next == ReSub(rules[k], t) IN
         IF Len(next) >= 0 THEN ApplyRules(rules, k + 1, next) ELSE next

\* lines 422-431: keep a line of more than one character or of one
\* alphanumeric character; keep a blank line only after a non-blank kept line
RECURSIVE CleanLines(_, _, _)
CleanLines(lines, i, kept) ==
    IF i > Len(lines) THEN kept
    ELSE LET stripped == Strip(lines[i]) IN
         IF Len(stripped) > 1 \/ (Len(stripped) = 1 /\ IsAlnum(stripped[1]))
         THEN CleanLines(lines, i + 1, Append(kept, lines[i]))
         ELSE IF stripped = <<>> /\ kept # <<>> /\ Strip(kept[Len(kept)]) # <<>>
         THEN CleanLines(lines, i + 1, Append(kept, lines[i]))
         ELSE CleanLines(lines, i + 1, kept)

fix_common_ocr_errors(text) ==
    IF text = <<>> THEN text
    ELSE LET subbed == ApplyRules(SubstitutionRules, 1, text)
             cleaned == CleanLines(SplitLines(subbed), 1, <<>>)
         IN Strip(Join(<<"\n">>, cleaned))

(***************************************************************************)
(* are_texts_similar.  A threshold is a fraction <<numerator, denominator>>*)
(* and the comparisons of quotients are done on cross products.            *)
(***************************************************************************)
\* re.sub(r'\s+', ' ', t): each whitespace run becomes one space
CollapseSpaces(t) ==
    LET kept == Positions(t, {i \in 1..Len(t) : ~IsSpace(t[i]) \/ ~IsSpace(Ch(t, i - 1))})
    IN [k \in 1..Len(kept) |-> IF IsSpace(t[kept[k]]) THEN " " ELSE t[kept[k]]]

\* normalize (lines 278-280)
normalize(t) == CollapseSpaces(Strip(Lower(t)))

\* a / b >= threshold
RatioAtLeast(a, b, threshold) == a * threshold[2] >= threshold[1] * b

are_texts_similar(text1, text2, threshold) ==
    IF text1 = <<>> \/ text2 = <<>> THEN FALSE
    ELSE LET norm1 == normalize(text1)
             norm2 == normalize(text2)
             shorter == IF Len(norm1) < Len(norm2) THEN norm1 ELSE norm2
             longer == IF Len(norm1) < Len(norm2) THEN norm2 ELSE norm1
             words1 == Range(Words(norm1))
             words2 == Range(Words(norm2))
         IN IF Len(shorter) > 0 /\ RatioAtLeast(Len(shorter), Len(longer), threshold)
            THEN TRUE
            ELSE IF words1 = {} \/ words2 = {} THEN FALSE
            ELSE RatioAtLeast(Cardinality(words1 \cap words2),
                              Cardinality(words1 \cup words2), threshold)

DefaultThreshold == <<7, 10>>

(***************************************************************************)
(* group_cells_into_rows.  A cell is <<x, y, w, h>>.  The row centre and   *)
(* the tolerance are quotients, kept as <<numerator, denominator>>.        *)
(***************************************************************************)
CellX(c) == c[1]

CellY(c) == c[2]

CellW(c) == c[3]

CellH(c) == c[4]

RECURSIVE SumSeq(_)
SumSeq(s) == IF s = <<>> THEN 0 ELSE Head(s) + SumSeq(Tail(s))

\* key=lambda cell: (cell[1], cell[0])
LessYX(a, b) == CellY(a) < CellY(b) \/ (CellY(a) = CellY(b) /\ CellX(a) < CellX(b))

\* key=lambda c: c[0]
LessX(a, b) == CellX(a) < CellX(b)

\* key=lambda r: r[1]
LessY(a, b) == CellY(a) < CellY(b)

\* the order of the sort key named key: "yx", "y" or "x"
KeyLess(key, a, b) ==
    IF key = "yx" THEN LessYX(a, b) ELSE IF key = "y" THEN LessY(a, b) ELSE LessX(a, b)

\* sorted(seq, key=...), list.sort(key=...): a stable sort
RECURSIVE InsertSorted(_, _, _)
InsertSorted(key, sorted, e) ==
    IF sorted = <<>> THEN <<e>>
    ELSE IF KeyLess(key, e, Head(sorted)) THEN <<e>> \o sorted
    ELSE <<Head(sorted)>> \o InsertSorted(key, Tail(sorted), e)

RECURSIVE StableSort(_, _)
StableSort(key, s) ==
    IF s = <<>> THEN <<>>
    ELSE InsertSorted(key, StableSort(key, SubSeq(s, 1, Len(s) - 1)), s[Len(s)])

\* y + h // 2
CenterY(c) == CellY(c) + (CellH(c) \div 2)

MinRowTolerance == 15

\* max(avg_height * 0.5, 15) with avg_height = sum(h) / len (lines 483-484)
RowTolerance(table_cells) ==
    LET total == SumSeq([i \in 1..Len(table_cells) |-> CellH(table_cells[i])])
        n == Len(table_cells)
    IN IF total >= 2 * MinRowTolerance * n
       THEN <<total, 2 * n>> ELSE <<MinRowTolerance, 1>>

\* abs(cell_center_y - current_row_y) <= row_tolerance
WithinTolerance(center, row_y, tol) ==
    Abs(center * row_y[2] - row_y[1]) * tol[2] <= tol[1] * row_y[2]

\* the state of the loop before its first iteration (lines 489-491)
GroupStart == [rows |-> <<>>, current_row |-> <<>>, current_row_y |-> <<>>]

\* a finished row left in the order in which its cells were scanned
KeepRow(row) == row

\* row.sort(key=lambda c: c[0]) of a finished row (lines 509, 516)
SortRow(row) == StableSort("x", row)

\* an iteration that leaves current_row_y at the centre of the first cell of
\* the row instead of averaging the centres
GroupIterFirstCentre(st, cell, tol) ==
    IF st.current_row_y = <<>> \/ WithinTolerance(CenterY(cell), st.current_row_y, tol)
    THEN [rows |-> st.rows,
          current_row |-> Append(st.current_row, cell),
          current_row_y |-> IF st.current_row_y = <<>> THEN <<CenterY(cell), 1>>
                            ELSE st.current_row_y]
    ELSE [rows |-> IF st.current_row # <<>>
                   THEN Append(st.rows, StableSort("x", st.current_row)) ELSE st.rows,
          current_row |-> <<cell>>,
          current_row_y |-> <<CenterY(cell), 1>>]

\* one iteration of the loop (lines 493-512); current_row_y = <<>> is None
GroupIter(st, cell, tol) ==
    IF st.current_row_y = <<>> \/ WithinTolerance(CenterY(cell), st.current_row_y, tol)
    THEN LET row == Append(st.current_row, cell) IN
         [rows |-> st.rows,
          current_row |-> row,
          current_row_y |->
              IF st.current_row_y = <<>> THEN <<CenterY(cell), 1>>
              ELSE <<SumSeq([i \in 1..Len(row) |-> CenterY(row[i])]), Len(row)>>]
    ELSE [rows |-> IF st.current_row # <<>>
                   THEN Append(st.rows, SortRow(st.current_row)) ELSE st.rows,
          current_row |-> <<cell>>,
          current_row_y |-> <<CenterY(cell), 1>>]

\* the loop left without the row still open being appended
OpenRowDropped(st) == st.rows

\* after the loop (lines 514-519)
GroupFinish(st) ==
    IF st.current_row # <<>> THEN Append(st.rows, SortRow(st.current_row))
    ELSE st.rows

RECURSIVE GroupLoop(_, _, _, _)
GroupLoop(sorted_cells, i, st, tol) ==
    IF i > Len(sorted_cells) THEN st
    ELSE GroupLoop(sorted_cells, i + 1, GroupIter(st, sorted_cells[i], tol), tol)

group_cells_into_rows(table_cells) ==
    IF table_cells = <<>> THEN <<>>
    ELSE GroupFinish(GroupLoop(StableSort("yx", table_cells), 1, GroupStart,
                               RowTolerance(table_cells)))

(***************************************************************************)
(* detect_table_structure.  What OpenCV finds in an image is a record:     *)
(*   original_width, original_height  the shape of the decoded image       *)
(*   contours  the contours of the line mask, each <<area, x, y, w, h>>:   *)
(*             cv2.contourArea and cv2.boundingRect                        *)
(*   stats     the connected components of the dilated binary image, each  *)
(*             <<x, y, w, h, area>>, the background left out               *)
(* Contours and components are in the coordinates of the enlarged image.   *)
(* The comparisons with fractions are done on cross products.              *)
(***************************************************************************)
UpscaleBelow == 1000

\* lines 42-45: an image narrower than 1000 pixels is enlarged twice
Scale(image) == IF image.original_width < UpscaleBelow THEN 2 ELSE 1

\* lines 45-47: the shape of the image the detection works on
ScaledWidth(image) == image.original_width * Scale(image)

ScaledHeight(image) == image.original_height * Scale(image)

MinLineCellSide == 20

\* lines 80-89: the cells found by line detection.  The contours followed
\* have areas that are whole numbers of pixels; such an area is above
\* width * height * 0.001 iff it is above the quotient
LineCells(image) ==
    LET kept == SelectSeq(image.contours, LAMBDA c :
                    /\ c[1] > (ScaledWidth(image) * ScaledHeight(image)) \div 1000
                    /\ c[4] > MinLineCellSide
                    /\ c[5] > MinLineCellSide
                    /\ 10 * c[4] < 9 * ScaledWidth(image)
                    /\ 10 * c[5] < 9 * ScaledHeight(image))
    IN [i \in 1..Len(kept) |-> <<kept[i][2], kept[i][3], kept[i][4], kept[i][5]>>]

MinLineCells == 2

\* a region-based detection in every case, whatever line detection found
AlwaysTryRegions(table_cells) == TRUE

\* line 94: text regions are looked for only if line detection found few cells
TryTextRegions(table_cells) == Len(table_cells) < MinLineCells

MinRegionWidth == 15

MinRegionHeight == 10

MinRegionArea == 50

\* lines 103-110: the connected components of the size of a table cell
TextRegions(image) ==
    LET kept == SelectSeq(image.stats, LAMBDA r :
                    /\ r[3] > MinRegionWidth
                    /\ r[4] > MinRegionHeight
                    /\ 10 * r[3] < 3 * ScaledWidth(image)
                    /\ 10 * r[4] < 2 * ScaledHeight(image)
                    /\ r[5] > MinRegionArea
                    /\ 10 * r[5] < ScaledWidth(image) * ScaledHeight(image))
    IN [i \in 1..Len(kept) |-> <<kept[i][1], kept[i][2], kept[i][3], kept[i][4]>>]

MinTextRegions == 4

MinRegionRowTolerance == 20

\* lines 116-117, 126: d <= max(avg_height * 0.6, 20)
WithinRegionTolerance(d, text_regions) ==
    \/ d <= MinRegionRowTolerance
    \/ 10 * Len(text_regions) * d
           <= 6 * SumSeq([i \in 1..Len(text_regions) |-> CellH(text_regions[i])])

\* one iteration of the loop of lines 124-132; last_y is the y of the region
\* that started the current row
RegionIter(st, region, text_regions) ==
    IF WithinRegionTolerance(Abs(CellY(region) - st.last_y), text_regions)
    THEN [st EXCEPT !.current_row = Append(st.current_row, region)]
    ELSE [rows |-> IF st.current_row # <<>> THEN Append(st.rows, st.current_row)
                   ELSE st.rows,
          current_row |-> <<region>>,
          last_y |-> CellY(region)]

RECURSIVE RegionLoop(_, _, _, _)
RegionLoop(sorted_regions, i, st, text_regions) ==
    IF i > Len(sorted_regions) THEN st
    ELSE RegionLoop(sorted_regions, i + 1,
                    RegionIter(st, sorted_regions[i], text_regions), text_regions)

\* lines 115-134: the text regions grouped into rows by y (at least one region)
RegionRows(text_regions) ==
    LET sorted_regions == StableSort("y", text_regions)
        st == RegionLoop(sorted_regions, 1,
                         [rows |-> <<>>, current_row |-> <<>>,
                          last_y |-> CellY(sorted_regions[1])],
                         text_regions)
    IN IF st.current_row # <<>> THEN Append(st.rows, st.current_row) ELSE st.rows

\* lines 142-146: the rows whose column count is within 1 of avg_cols, which
\* is the number of regions divided by the number of rows
SimilarCols(rows, n) ==
    Cardinality({k \in 1..Len(rows) : Abs(Len(rows[k]) * Len(rows) - n) <= Len(rows)})

\* line 154: int(round(n / r)), round() rounding a half to the even integer
RoundDiv(n, r) ==
    LET q == n \div r
        m == n % r
    IN IF 2 * m < r THEN q
       ELSE IF 2 * m > r THEN q + 1
       ELSE IF q % 2 = 0 THEN q ELSE q + 1

\* a row counted as aligned as soon as it has enough cells, wherever they are
RowLongEnough(row, first_row_x, num_cols, width) == Len(row) >= num_cols

\* lines 165-171: a row of at least num_cols cells whose x positions, taken
\* from the left, are within width * 0.15 of those of the first row
RowAligned(row, first_row_x, num_cols, width) ==
    /\ Len(row) >= num_cols
    /\ \A i \in 1..Min2(Len(row), Len(first_row_x)) :
           20 * Abs(CellX(row[i]) - first_row_x[i]) <= 3 * width

\* lines 160-172: aligned_rows, the first row counted
AlignedRows(xrows, first_row_x, num_cols, width) ==
    1 + Cardinality({k \in 2..Len(xrows) :
                        RowAligned(xrows[k], first_row_x, num_cols, width)})

\* lines 140-175: whether the rows are those of a table
RowsFormTable(rows, n, width) ==
    /\ Len(rows) >= 2
    /\ 10 * SimilarCols(rows, n) >= 7 * Len(rows)
    /\ RoundDiv(n, Len(rows)) >= 2
    /\ Len(rows[1]) >= RoundDiv(n, Len(rows))
    /\ LET xrows == [k \in 1..Len(rows) |-> StableSort("x", rows[k])]
           first_row_x == [i \in 1..Len(xrows[1]) |-> CellX(xrows[1][i])]
       IN 10 * AlignedRows(xrows, first_row_x, RoundDiv(n, Len(rows)), width)
              >= 6 * Len(rows)

\* lines 113-176: whether the text regions replace the line-detected cells
RegionsFormTable(image, text_regions) ==
    /\ Len(text_regions) >= MinTextRegions
    /\ RowsFormTable(RegionRows(text_regions), Len(text_regions), ScaledWidth(image))

\* the cells returned in the coordinates of the enlarged image
NotScaledBack(image, table_cells) == table_cells

\* lines 193-197: int(x / scale) of the coordinates
ScaleBack(image, table_cells) ==
    [i \in 1..Len(table_cells) |->
        [j \in 1..4 |-> table_cells[i][j] \div Scale(image)]]

\* the table_cells returned for what OpenCV finds in the image
detect_table_structure(image) ==
    LET line_cells == LineCells(image)
        text_regions == TextRegions(image)
    IN ScaleBack(image,
                 IF TryTextRegions(line_cells) /\ RegionsFormTable(image, text_regions)
                 THEN text_regions ELSE line_cells)

(***************************************************************************)
(* The environment's answers.  An image is a record:                       *)
(*   open, detect  "ok" or "raise": Image.open, detect_table_structure     *)
(*   width, height the shape of the decoded image                          *)
(*   cells         the table_cells detect_table_structure returns          *)
(*   cell_prep     "ok" or "raise": preprocess_cell_image                  *)
(*   cell_ocr      cell |-> what image_to_string returns for the cell in   *)
(*                 the modes 7, 8, 6, 11                                   *)
(*   page_ocr      what image_to_string returns for the whole page in the  *)
(*                 modes 6, 11, 4, 3                                       *)
(* An answer of image_to_string is a text or OcrRaise (an exception).      *)
(***************************************************************************)
OcrRaise == <<"raise">>

\* the value None
NoneValue == <<"None">>

\* the truth value of a str-or-None in an if
Truthy(text) == text # <<>> /\ text # NoneValue

\* the first text, whatever the lengths
FirstTried(texts) == texts[1]

\* max(texts, key=len): the first text of maximal length
RECURSIVE LongestFrom(_, _, _)
LongestFrom(texts, i, best) ==
    IF i > Len(texts) THEN best
    ELSE LongestFrom(texts, i + 1,
                     IF Len(texts[i]) > Len(best) THEN texts[i] ELSE best)

Longest(texts) == LongestFrom(texts, 2, texts[1])

(***************************************************************************)
(* extract_table_cells                                                     *)
(***************************************************************************)
CellPadding == 5

MinCellSize == 100

\* cell_img.size of gray[y1:y2, x1:x2] (lines 554-560)
CellImgSize(image, cell) ==
    LET y1 == Max2(0, CellY(cell) - CellPadding)
        x1 == Max2(0, CellX(cell) - CellPadding)
        y2 == Min2(image.height, CellY(cell) + CellH(cell) + CellPadding)
        x2 == Min2(image.width, CellX(cell) + CellW(cell) + CellPadding)
    IN Max2(0, y2 - y1) * Max2(0, x2 - x1)

\* the cells of a row that are not skipped as too small (line 563)
OcredCells(image, row_cells) ==
    SelectSeq(row_cells, LAMBDA c : CellImgSize(image, c) >= MinCellSize)

\* the loop over the modes 7, 8, 6, 11 (lines 570-581): the corrected texts of
\* the modes that returned a non-empty text without raising
RECURSIVE CellTextsTried(_, _)
CellTextsTried(answers, k) ==
    IF k > Len(answers) THEN <<>>
    ELSE IF answers[k] = OcrRaise \/ Strip(answers[k]) = <<>>
         THEN CellTextsTried(answers, k + 1)
         ELSE <<fix_common_ocr_errors(Strip(answers[k]))>>
                  \o CellTextsTried(answers, k + 1)

\* the loop left at the first mode that raises or reads nothing
StopAtFailure(answers, k) ==
    IF answers[k] = OcrRaise \/ Strip(answers[k]) = <<>> THEN Len(answers) + 1 ELSE k + 1

\* the mode tried after mode k of the loop (lines 570-581): `continue` after
\* an exception, the next iteration otherwise
ModeAfter(answers, k) == k + 1

\* lines 583-589 for the texts tried: the text appended to row_texts, <<>> if
\* there is none
KeptText(cell_texts_tried) ==
    IF cell_texts_tried = <<>> THEN <<>>
    ELSE fix_common_ocr_errors(Strip(Longest(cell_texts_tried)))

\* the text kept for a cell (lines 583-589), <<>> if none
CellText(image, cell) ==
    LET cell_texts_tried == CellTextsTried(image.cell_ocr[cell], 1) IN
    IF cell_texts_tried = <<>> THEN <<>>
    ELSE fix_common_ocr_errors(Strip(Longest(cell_texts_tried)))

RowTexts(image, row_cells) ==
    LET cells == OcredCells(image, row_cells) IN
    SelectSeq([i \in 1..Len(cells) |-> CellText(image, cells[i])],
              LAMBDA t : t # <<>>)

\* '| ' + ' | '.join(row_texts) + ' |'
PipeRow(texts) == <<"|", " ">> \o Join(<<" ", "|", " ">>, texts) \o <<" ", "|">>

\* the cells handed to preprocess_cell_image and to the four recognitions
RECURSIVE AllOcredCells(_, _, _)
AllOcredCells(image, rows, i) ==
    IF i > Len(rows) THEN <<>>
    ELSE OcredCells(image, rows[i]) \o AllOcredCells(image, rows, i + 1)

\* Returns [exc, text, ocred]: whether an exception left the function, the
\* formatted table text, the cells that were recognized.
extract_table_cells(image, table_cells) ==
    IF table_cells = <<>> THEN [exc |-> FALSE, text |-> <<>>, ocred |-> <<>>]
    ELSE LET rows == group_cells_into_rows(table_cells)
             ocred == AllOcredCells(image, rows, 1)
             row_texts == [i \in 1..Len(rows) |-> RowTexts(image, rows[i])]
             cell_texts == SelectSeq(row_texts, LAMBDA r : r # <<>>)
         IN IF ocred # <<>> /\ image.cell_prep = "raise"
            THEN [exc |-> TRUE, text |-> <<>>, ocred |-> <<>>]
            ELSE [exc |-> FALSE,
                  text |-> Join(<<"\n">>,
                               [i \in 1..Len(cell_texts) |-> PipeRow(cell_texts[i])]),
                  ocred |-> ocred]

(***************************************************************************)
(* extract_with_multiple_psm_modes                                         *)
(***************************************************************************)
psm_modes == <<6, 11, 4, 3>>

MinPageLength == 10

\* the entry appended to results (lines 630-635)
ResultOf(text, psm) == [text |-> text, psm |-> psm, length |-> Len(text)]

\* an iteration that also keeps a text of exactly MinPageLength characters
ModeResultsFromTen(answers, k) ==
    IF answers[k] = OcrRaise \/ Len(Strip(answers[k])) < MinPageLength THEN <<>>
    ELSE <<ResultOf(fix_common_ocr_errors(Strip(answers[k])), psm_modes[k])>>

\* one iteration of the loop over the modes (lines 621-637): what it appends
ModeResults(answers, k) ==
    IF answers[k] = OcrRaise \/ Len(Strip(answers[k])) <= MinPageLength THEN <<>>
    ELSE <<ResultOf(fix_common_ocr_errors(Strip(answers[k])), psm_modes[k])>>

\* the loop over the modes (lines 621-637)
RECURSIVE PageResults(_, _)
PageResults(answers, k) ==
    IF k > Len(answers) THEN <<>>
    ELSE ModeResults(answers, k) \o PageResults(answers, k + 1)

\* index of the first existing result similar to result, 0 if none
RECURSIVE FirstSimilar(_, _, _)
FirstSimilar(unique_results, result, j) ==
    IF j > Len(unique_results) THEN 0
    ELSE IF are_texts_similar(result.text, unique_results[j].text, DefaultThreshold)
         THEN j
         ELSE FirstSimilar(unique_results, result, j + 1)

RemoveAt(s, j) == SubSeq(s, 1, j - 1) \o SubSeq(s, j + 1, Len(s))

\* an iteration that never replaces an existing result by a longer similar one
DedupKeepsExisting(unique_results, result) ==
    IF FirstSimilar(unique_results, result, 1) = 0 THEN Append(unique_results, result)
    ELSE unique_results

\* one iteration of the de-duplication loop (lines 644-656)
DedupStep(unique_results, result) ==
    LET j == FirstSimilar(unique_results, result, 1) IN
    IF j = 0 THEN Append(unique_results, result)
    ELSE IF result.length > unique_results[j].length
         THEN Append(RemoveAt(unique_results, j), result)
         ELSE unique_results

RECURSIVE Deduplicate(_, _, _)
Deduplicate(results, i, unique_results) ==
    IF i > Len(results) THEN unique_results
    ELSE Deduplicate(results, i + 1, DedupStep(unique_results, results[i]))

\* max(unique_results, key=lambda x: x['length'])
RECURSIVE BestFrom(_, _, _)
BestFrom(rs, i, best) ==
    IF i > Len(rs) THEN best
    ELSE BestFrom(rs, i + 1, IF rs[i].length > best.length THEN rs[i] ELSE best)

\* lines 659-663
BestText(unique_results) ==
    IF unique_results # <<>>
    THEN BestFrom(unique_results, 2, unique_results[1]).text
    ELSE <<>>

\* lines 639-663
BestOf(results) ==
    IF results = <<>> THEN <<>> ELSE BestText(Deduplicate(results, 1, <<>>))

extract_with_multiple_psm_modes(image) == BestOf(PageResults(image.page_ocr, 1))

(***************************************************************************)
(* detect_and_group_table_lines and clean_structured_text                  *)
(***************************************************************************)
MaxTokenLength == 8

MinTableTokens == 4

\* a line that is one short token (line 683)
IsTableCellLine(line) ==
    LET stripped == Strip(line) IN
    stripped # <<>> /\ Len(stripped) <= MaxTokenLength /\ " " \notin Range(stripped)

\* fit_score of a column count for n tokens (lines 696-705)
FitScore(n, col_count) ==
    IF n % col_count = 0
    THEN (n \div col_count) * 100 + (IF col_count = 3 THEN 10 ELSE 0)
    ELSE (n \div col_count) * 10 - (n % col_count) * 5

\* the loop over the column counts 3, 2, 4 (lines 692-709)
RECURSIVE BestColumnFrom(_, _, _, _, _)
BestColumnFrom(n, counts, k, best_column_count, best_fit_score) ==
    IF k > Len(counts) THEN best_column_count
    ELSE IF FitScore(n, counts[k]) > best_fit_score
         THEN BestColumnFrom(n, counts, k + 1, counts[k], FitScore(n, counts[k]))
         ELSE BestColumnFrom(n, counts, k + 1, best_column_count, best_fit_score)

BestColumnCount(n) == BestColumnFrom(n, <<3, 2, 4>>, 1, 3, -1000)

\* the rows of at least 2 tokens, best_column_count tokens a row (lines 712-716)
RECURSIVE TableRows(_, _)
TableRows(table_cells, cols) ==
    IF table_cells = <<>> THEN <<>>
    ELSE LET row_cells == SubSeq(table_cells, 1, Min2(cols, Len(table_cells)))
             rest == SubSeq(table_cells, Len(row_cells) + 1, Len(table_cells))
         IN (IF Len(row_cells) >= 2 THEN <<PipeRow(row_cells)>> ELSE <<>>)
                \o TableRows(rest, cols)

\* the inner while (lines 730-741): the index at which the table section ends
RECURSIVE SectionEnd(_, _, _)
SectionEnd(lines, indices, j) ==
    IF j > Len(lines) THEN j
    ELSE IF j \in indices THEN SectionEnd(lines, indices, j + 1)
    ELSE IF Strip(lines[j]) = <<>> /\ j + 1 <= Len(lines) /\ (j + 1) \in indices
         THEN SectionEnd(lines, indices, j + 1)
         ELSE j

\* the outer while (lines 723-753)
RECURSIVE SecondPass(_, _, _, _, _, _)
SecondPass(lines, indices, table_rows, i, processed, result) ==
    IF i > Len(lines) THEN result
    ELSE IF i \in indices /\ i \notin processed
         THEN LET j == SectionEnd(lines, indices, i) IN
              SecondPass(lines, indices, table_rows, j,
                         processed \cup (indices \cap (i..(j - 1))),
                         result \o table_rows)
         ELSE SecondPass(lines, indices, table_rows, i + 1, processed,
                         IF i \notin processed THEN Append(result, lines[i])
                         ELSE result)

detect_and_group_table_lines(lines) ==
    LET table_cell_indices == {i \in 1..Len(lines) : IsTableCellLine(lines[i])}
        table_cells == [k \in 1..Len(SelectSeq(lines, IsTableCellLine)) |->
                           Strip(SelectSeq(lines, IsTableCellLine)[k])]
    IN IF lines = <<>> \/ Len(table_cells) < MinTableTokens THEN lines
       ELSE SecondPass(lines, table_cell_indices,
                       TableRows(table_cells, BestColumnCount(Len(table_cells))),
                       1, {}, <<>>)

\* line[i] belongs to a separator of re.split(r'\s{2,}|\t+', line): it is in a
\* whitespace run of two or more, or is a tab
IsSeparator(line, i) ==
    IsSpace(line[i])
        /\ (line[i] = "\t" \/ IsSpace(Ch(line, i - 1)) \/ IsSpace(Ch(line, i + 1)))

\* the non-empty parts of re.split(r'\s{2,}|\t+', line)
SplitColumns(line) ==
    LET starts == Positions(line, {i \in 1..Len(line) : ~IsSeparator(line, i)
                                /\ (i = 1 \/ IsSeparator(line, i - 1))})
        ends == Positions(line, {i \in 1..Len(line) : ~IsSeparator(line, i)
                              /\ (i = Len(line) \/ IsSeparator(line, i + 1))})
    IN [k \in 1..Len(starts) |-> SubSeq(line, starts[k], ends[k])]

\* re.search(r'\s{3,}', line)
HasWideGap(line) == \E i \in 1..Len(line) : RunLen("s", line, i) >= 3

\* one line of the loop of lines 793-812
FormatLine(line) ==
    IF HasWideGap(line) \/ "\t" \in Range(line)
    THEN LET split == SplitColumns(line)
             parts == SelectSeq([k \in 1..Len(split) |-> Strip(split[k])],
                                LAMBDA part : part # <<>>)
         IN IF Len(parts) >= 2 /\ Len(parts) <= 6
               /\ (\A k \in 1..Len(parts) : Len(parts[k]) < 50)
               /\ ~ (\E m \in 1..Len(parts) :
                         Len(parts[m]) > 30 /\ " " \in Range(parts[m]))
            THEN PipeRow(parts)
            ELSE line
    ELSE line

\* lines 770-778, common to both values of is_table
BasicClean(text) ==
    LET fixed == fix_common_ocr_errors(text)
        collapsed == ReSub(RuleLit(<<AtomNlRun>>, <<"\n", "\n">>), fixed)
        lines == SplitLines(collapsed)
    IN Join(<<"\n">>, [i \in 1..Len(lines) |-> RStrip(lines[i])])

clean_structured_text(text, is_table) ==
    IF ~Truthy(text) THEN <<>>
    ELSE IF is_table THEN Strip(BasicClean(text))
    ELSE LET lines == detect_and_group_table_lines(SplitLines(BasicClean(text)))
         IN Strip(Join(<<"\n">>, [i \in 1..Len(lines) |-> FormatLine(lines[i])]))

(***************************************************************************)
(* convert_image_to_structured_text                                        *)
(***************************************************************************)
MinTableCells == 2

\* a guard that lets a single detected cell through
UseAnyCells(table_cells) == table_cells # <<>>

\* table_cells and len(table_cells) >= 2 (line 836)
UseTableCells(table_cells) == table_cells # <<>> /\ Len(table_cells) >= MinTableCells

MergeThreshold == <<3, 10>>

LineThreshold == <<1, 2>>

\* [line.strip() for line in text.split('\n') if line.strip()]
StrippedLines(text) ==
    LET lines == SplitLines(text) IN
    SelectSeq([i \in 1..Len(lines) |-> Strip(lines[i])], LAMBDA l : l # <<>>)

\* the lines of the whole-page text similar to no line of the table (853-854)
UniqueRegular(table_text, regular_text) ==
    LET table_lines == StrippedLines(table_text) IN
    SelectSeq(StrippedLines(regular_text),
              LAMBDA line : ~ \E k \in 1..Len(table_lines) :
                                  are_texts_similar(line, table_lines[k], LineThreshold))

\* the lines kept from the whole-page text put after the table text
AppendLines(unique_regular, table_text) ==
    IF unique_regular # <<>>
    THEN table_text \o <<"\n", "\n">> \o Join(<<"\n">>, unique_regular)
    ELSE table_text

\* lines 855-856: the lines kept from the whole-page text go before the table
PrependLines(unique_regular, table_text) ==
    IF unique_regular # <<>>
    THEN Join(<<"\n">>, unique_regular) \o <<"\n", "\n">> \o table_text
    ELSE table_text

\* the value of text before it is cleaned, table_text being non-empty (845-856)
MergeTexts(table_text, regular_text) ==
    IF regular_text # <<>> /\ ~are_texts_similar(table_text, regular_text, MergeThreshold)
    THEN PrependLines(UniqueRegular(table_text, regular_text), table_text)
    ELSE table_text

\* the value of text before it is cleaned (lines 843-861)
CombinedText(table_text, regular_text) ==
    IF Strip(table_text) # <<>> THEN MergeTexts(table_text, regular_text)
    ELSE regular_text

\* lines 835-837: the table text, and the cells that were recognized for it
TableStage(image, table_cells) ==
    IF UseTableCells(table_cells) THEN extract_table_cells(image, table_cells)
    ELSE [exc |-> FALSE, text |-> <<>>, ocred |-> <<>>]

\* what the try block leaves when an exception is raised inside it: nothing
\* is returned
Raised ==
    [exc |-> TRUE, ret |-> <<>>, table_cells |-> <<>>, ocred |-> <<>>,
     table_text |-> <<>>, regular_text |-> <<>>, text |-> <<>>]

\* lines 857-865: the cleaned text is returned; the record keeps the locals
Returned(table_cells, cells, regular_text, text) ==
    [exc |-> FALSE,
     ret |-> clean_structured_text(text, Strip(cells.text) # <<>>),
     table_cells |-> table_cells,
     ocred |-> cells.ocred,
     table_text |-> cells.text,
     regular_text |-> regular_text,
     text |-> text]

\* lines 835-865, cells being the outcome of the table stage
ConvertStages(table_cells, cells, regular_text) ==
    IF cells.exc THEN Raised
    ELSE Returned(table_cells, cells, regular_text,
                  CombinedText(cells.text, regular_text))

\* the try block (lines 828-865): exc tells whether an exception was raised;
\* the other fields are the locals and the returned value
ConvertBody(image) ==
    IF image.open = "raise" \/ image.detect = "raise" THEN Raised
    ELSE ConvertStages(image.cells, TableStage(image, image.cells),
                       extract_with_multiple_psm_modes(image))

\* a function without the except clause: the exception leaves it
RaiseThrough(body) == body

\* the except clause (lines 867-871): any exception is caught, None is returned
CatchAll(body) == IF body.exc THEN [body EXCEPT !.exc = FALSE, !.ret = NoneValue] ELSE body

convert_image_to_structured_text(image) == CatchAll(ConvertBody(image))

(***************************************************************************)
(* The images of the model: what the decoder, the detector and the OCR     *)
(* engine answer for each file that can lie in the input folder.           *)
(***************************************************************************)
\* the text of a string literal
Chars(str) == [i \in 1..Len(str) |-> SubSeq(str, i, i)]

Same4(answer) == <<answer, answer, answer, answer>>

NoAnswers == Same4(<<>>)

MakeImage(cells, cell_ocr, page_ocr) ==
    [open |-> "ok", detect |-> "ok", width |-> 400, height |-> 300,
     cells |-> cells, cell_prep |-> "ok", cell_ocr |-> cell_ocr,
     page_ocr |-> page_ocr]

\* a page without cells
PageImage(page_ocr) == MakeImage(<<>>, <<>>, page_ocr)

\* the cells of a ruled grid in row-major order: cells of w x h pixels, gap
\* pixels of ruling between them, the first one at (x0, y0)
GridCells(x0, y0, w, h, gap, nrows, ncols) ==
    [k \in 1..(nrows * ncols) |->
        <<x0 + ((k - 1) % ncols) * (w + gap), y0 + ((k - 1) \div ncols) * (h + gap),
          w, h>>]

\* the engine reads token k in cell k of cells: with a line break after it in
\* mode 7, bare in mode 8, nothing in mode 6, and fails in mode 11
TokenOcr(cells, tokens) ==
    [c \in Range(cells) |->
        LET k == CHOOSE j \in 1..Len(cells) : cells[j] = c IN
        <<tokens[k] \o <<"\n">>, tokens[k], <<>>, OcrRaise>>]

PairCells == GridCells(20, 40, 60, 30, 4, 1, 2)

PairOcr == TokenOcr(PairCells, <<Chars("a"), Chars("1")>>)

SixCells == GridCells(20, 40, 60, 30, 4, 3, 2)

SixTokens == <<Chars("a"), Chars("1"), Chars("b"), Chars("2"), Chars("c"), Chars("3")>>

Unreadable == [PageImage(NoAnswers) EXCEPT !.open = "raise"]

DetectFails == [PageImage(NoAnswers) EXCEPT !.detect = "raise"]

Blank == PageImage(<<Chars(" \n"), OcrRaise, Chars("too short\n"), <<>>>>)

Prose ==
    PageImage(<<Chars("Plain sentence text.\nSecond line here.\n"), OcrRaise,
                Chars("Plain sentence text.\n"), <<>>>>)

SpacedProse == PageImage(Same4(Chars("Total due   42 euro\nthank you\n")))

TokenLines == PageImage(Same4(Chars("yes\nno\nyes\nno\nmaybe\n")))

OneCell ==
    MakeImage(<<<<20, 40, 60, 30>>>>,
              [c \in {<<20, 40, 60, 30>>} |-> Same4(Chars("x7"))],
              Same4(Chars("One boxed word only\n")))

Captioned ==
    MakeImage(PairCells, PairOcr,
              Same4(Chars("Which row holds the value one?\na 1\n")))

NearDuplicate == MakeImage(PairCells, PairOcr, Same4(Chars("a 1 and more\n")))

Paraphrase ==
    MakeImage(PairCells, PairOcr,
              Same4(Chars("first row\nsecond col\nthird one\nfourth x\n")))

Grid3x2 ==
    MakeImage(SixCells, TokenOcr(SixCells, SixTokens), Same4(Chars("a 1\nb 2\nc 3\n")))

\* a grid of 11-pixel cells, one pixel of ruling between them
DenseCells == GridCells(20, 40, 60, 11, 1, 3, 2)

GridDense ==
    MakeImage(DenseCells, TokenOcr(DenseCells, SixTokens), Same4(Chars("a 1\nb 2\nc 3\n")))

Reverse(seq) == [k \in 1..Len(seq) |-> seq[Len(seq) + 1 - k]]

\* the grid of Grid3x2, its cells detected from the last to the first
GridReversed ==
    MakeImage(Reverse(SixCells), TokenOcr(SixCells, SixTokens),
              Same4(Chars("a 1\nb 2\nc 3\n")))

EmptyCells ==
    MakeImage(PairCells, [c \in Range(PairCells) |-> <<<<>>, Chars(" \n"), OcrRaise, <<>>>>],
              Same4(Chars("Nothing in the boxes\n")))

PrepFails == [Captioned EXCEPT !.cell_prep = "raise"]

ImagePool ==
    << Unreadable, DetectFails, Blank, Prose, SpacedProse, TokenLines, OneCell,
       Captioned, NearDuplicate, Paraphrase, Grid3x2, GridDense, GridReversed,
       EmptyCells, PrepFails >>

\* the conversion of each image of the pool
Converted == [k \in 1..Len(ImagePool) |-> convert_image_to_structured_text(ImagePool[k])]


\* the cells group_cells_into_rows is called with: rows of 11-pixel cells that
\* follow one another closely, and 50-pixel cells beside and below them
CellPool ==
    { <<0, 0, 30, 11>>, <<40, 12, 30, 11>>, <<0, 20, 30, 11>>,
      <<40, 0, 30, 50>>, <<0, 60, 30, 50>>, <<80, 30, 30, 41>> }

\* what image_to_string answers for a whole page, in any of the four modes
PageAnswerPool ==
    { Chars("north south\n"), Chars("copper silver tin\n"), Chars("winter summers\n"),
      Chars("Winter  summers"), Chars("too short\n"), Chars("exactly 10\n"),
      OcrRaise }

(***************************************************************************)
(* What OpenCV finds in the images detect_table_structure is called with.  *)
(***************************************************************************)
FindingsOf(original_width, contours, stats) ==
    [original_width |-> original_width,
     original_height |-> (3 * original_width) \div 4,
     contours |-> contours, stats |-> stats]

NoFindings == FindingsOf(0, <<>>, <<>>)

\* a ruled cell of 100 x 40 pixels at (x, y) and its contour
CellContour(x, y) == <<4000, x, y, 100, 40>>

\* no contour; one cell; two cells; a cell and a contour that is not high
\* enough; a cell and a contour of too small an area; two cells of odd
\* coordinates and sizes, the second in the lower right corner of an image
\* enlarged to 800 x 600
ContourPool ==
    { <<>>,
      <<CellContour(50, 50)>>,
      <<CellContour(50, 50), CellContour(154, 50)>>,
      <<CellContour(50, 50), <<2000, 154, 50, 100, 20>>>>,
      <<<<400, 10, 10, 25, 25>>, CellContour(50, 50)>>,
      <<<<4141, 51, 51, 101, 41>>, <<4725, 695, 555, 105, 45>>>> }

\* text regions of w x h pixels in nrows rows and ncols columns, the first at
\* (x0, y0), the rows ypitch and the columns 200 pixels apart
RegionGrid(x0, y0, w, h, ypitch, nrows, ncols) ==
    [k \in 1..(nrows * ncols) |->
        <<x0 + ((k - 1) % ncols) * 200, y0 + ((k - 1) \div ncols) * ypitch,
          w, h, w * h>>]

\* rows of 22-pixel regions 60 pixels apart
RoomyRows(x0, y0, nrows, ncols) == RegionGrid(x0, y0, 60, 22, 60, nrows, ncols)

\* 4 rows by 3 columns
RoomyGrid == RoomyRows(100, 100, 4, 3)

\* 4 rows by 3 columns of 14-pixel regions, the rows 15 pixels apart
DenseGrid == RegionGrid(100, 100, 40, 14, 15, 4, 3)

\* the rows after the first start 200 pixels to the right of it
ShiftedRows == RoomyRows(100, 100, 1, 3) \o RoomyRows(300, 160, 3, 3)

\* five rows, the last two shifted; five rows, the last three shifted
TwoRowsShifted == RoomyRows(100, 100, 3, 3) \o RoomyRows(300, 280, 2, 3)

ThreeRowsShifted == RoomyRows(100, 100, 2, 3) \o RoomyRows(300, 220, 3, 3)

\* rows of 1, 4, 1 and 4 regions
UnevenRows ==
    RoomyRows(100, 100, 1, 1) \o RoomyRows(100, 160, 1, 4)
        \o RoomyRows(100, 220, 1, 1) \o RoomyRows(100, 280, 1, 4)

\* a row of 2 regions above a row of 3
TwoThenThree == RoomyRows(100, 100, 1, 2) \o RoomyRows(100, 160, 1, 3)

\* four lines of text 300 pixels wide
WideLines == RegionGrid(100, 100, 300, 22, 60, 4, 1)

StatsPool ==
    { <<>>, RoomyGrid, DenseGrid, RoomyRows(100, 100, 2, 2), RoomyRows(100, 100, 1, 4),
      RoomyRows(100, 100, 3, 1), ShiftedRows, TwoRowsShifted, ThreeRowsShifted,
      UnevenRows, TwoThenThree, WideLines }

\* an image that is enlarged for detection and one that is not
WidthPool == {400, 1200}

(***************************************************************************)
(* combine_files.py: the names given on the command line, the files they   *)
(* name in the folder input/ and the file written to the folder output/.   *)
(* A name or a path is a text.  What the files hold is not followed: the   *)
(* input files are taken to be readable.                                   *)
(***************************************************************************)
\* `ch in t`
Contains(t, ch) == \E i \in 1..Len(t) : t[i] = ch

\* str.startswith
StartsWith(t, prefix) ==
    Len(t) >= Len(prefix) /\ SubSeq(t, 1, Len(prefix)) = prefix

\* the position of the last ch of t, 0 when there is none (str.rfind, 1-based)
RFind(t, ch) ==
    IF Contains(t, ch) THEN CHOOSE i \in 1..Len(t) :
                                /\ t[i] = ch
                                /\ \A j \in (i + 1)..Len(t) : t[j] # ch
    ELSE 0

\* Path.name: the final component of a path
PathName(path) == SubSeq(path, RFind(path, "/") + 1, Len(path))

\* Path.suffix: from the last dot of the name on, unless the name starts or
\* ends with that dot
PathSuffix(path) ==
    LET name == PathName(path)
        i == RFind(name, ".")
    IN  IF i > 1 /\ i < Len(name) THEN SubSeq(name, i, Len(name)) ELSE <<>>

ImageSuffixes == {Chars(".jpg"), Chars(".jpeg"), Chars(".png"), Chars(".gif"),
                  Chars(".bmp"), Chars(".tiff"), Chars(".webp")}

get_file_type(file_path) ==
    LET ext == Lower(PathSuffix(file_path))
    IN  IF ext \in ImageSuffixes THEN "image"
        ELSE IF ext = Chars(".pdf") THEN "pdf"
        ELSE "text"

\* main, line 265: the last argument "looks like an output filename"
LooksLikeOutput(last_arg) ==
    /\ Contains(last_arg, ".")
    /\ ~Contains(last_arg, "/")
    /\ ~Contains(last_arg, "\\")

\* main, lines 257-278: <<input_files, output_file>> of the arguments
ParseArgs(args) ==
    IF Len(args) > 1 /\ LooksLikeOutput(args[Len(args)])
    THEN <<SubSeq(args, 1, Len(args) - 1), args[Len(args)]>>
    ELSE <<args, NoneValue>>

\* combine_files, lines 66-79: the path a name is looked up at
FullPath(file_path) ==
    IF StartsWith(file_path, Chars("/")) THEN file_path
    ELSE IF StartsWith(file_path, Chars("input/")) \/ StartsWith(file_path, Chars("input\\"))
    THEN Chars("input/") \o SubSeq(file_path, 7, Len(file_path))
    ELSE Chars("input/") \o file_path

\* combine_files, lines 64-92: the paths kept as full_input_paths
FullInputPaths(file_paths, present) ==
    LET full == [i \in 1..Len(file_paths) |-> FullPath(file_paths[i])]
    IN  SelectSeq(full, LAMBDA f : f \in present /\ ~StartsWith(PathName(f), Chars(".")))

\* combine_files, lines 101-105: the types found among the paths
FileTypes(paths) == {get_file_type(paths[i]) : i \in 1..Len(paths)}

\* file_types[type]
OfType(paths, type) == SelectSeq(paths, LAMBDA f : get_file_type(f) = type)

\* combine_files, lines 108-131: <<output_name, output_type>>
OutputOf(paths, output_path) ==
    IF output_path = NoneValue
    THEN IF FileTypes(paths) = {"image"}
         THEN <<Chars("combined") \o Lower(PathSuffix(OfType(paths, "image")[1])), "image">>
         ELSE IF FileTypes(paths) = {"pdf"}
         THEN <<Chars("combined") \o Lower(PathSuffix(OfType(paths, "pdf")[1])), "pdf">>
         ELSE <<Chars("combined") \o
                   (IF PathSuffix(paths[1]) # <<>> THEN Lower(PathSuffix(paths[1]))
                    ELSE Chars(".txt")),
                "text">>
    ELSE <<PathName(output_path), get_file_type(PathName(output_path))>>

\* combine_files, lines 136-220: whether the output file gets written
CanWrite(paths, output_type, libs) ==
    CASE output_type = "image" -> "image" \in FileTypes(paths) /\ libs.HAS_PIL
      [] output_type = "pdf" -> "pdf" \in FileTypes(paths) /\ libs.HAS_PDF
      [] OTHER -> TRUE

\* the names that may be given on the command line
NamePool == {Chars("a.jpg"), Chars("B.JPG"), Chars("c.pdf"), Chars("notes"),
             Chars("input/d.txt"), Chars("out.txt"), Chars(".hidden")}

\* what the folder input/ may hold
FolderPool == {{Chars("input/a.jpg"), Chars("input/B.JPG"), Chars("input/c.pdf"),
                Chars("input/notes"), Chars("input/d.txt")},
               {Chars("input/a.jpg"), Chars("input/c.pdf"), Chars("input/.hidden")}}

MaxArgs == 3

(***************************************************************************)
(* The lines detect_and_group_table_lines is called with.  A line is a     *)
(* short token, another text or blank; what it holds depends on its place, *)
(* so that no two non-blank lines of a list are equal and no line is part  *)
(* of another.                                                             *)
(***************************************************************************)
MaxLines == 7

DigitAt(i) == <<"1", "2", "3", "4", "5", "6", "7", "8", "9">>[i]

\* the token of place i, as it is once stripped
TokenAt(i) == <<"t", DigitAt(i)>>

\* the line of a kind at place i: every other token has blanks around it,
\* every third text is a single word too long for a token, every other blank
\* line holds a blank
LineAt(kind, i) ==
    CASE kind = "token" -> IF i % 2 = 0 THEN <<" ">> \o TokenAt(i) \o <<" ">>
                           ELSE TokenAt(i)
      [] kind = "text" -> IF i % 3 = 0 THEN Chars("longword") \o <<DigitAt(i)>>
                          ELSE Chars("line ") \o <<DigitAt(i)>>
      [] OTHER -> IF i % 2 = 0 THEN <<>> ELSE <<" ">>

LinesOf(kinds) == [i \in 1..Len(kinds) |-> LineAt(kinds[i], i)]

(***************************************************************************)
(* The cells extract_table_cells is called with and what the engine reads  *)
(* in them.                                                                *)
(***************************************************************************)
CellsModes == <<7, 8, 6, 11>>

\* two cells of a first row, a cell of a second row, and a cell in the corner
\* of the image, too small to be read
CellA == <<20, 40, 60, 30>>

CellB == <<84, 40, 60, 30>>

CellC == <<20, 74, 60, 30>>

TinyCell == <<0, 0, 2, 2>>

TableCellsPool ==
    {<<>>, <<CellA>>, <<CellB, CellA>>, <<TinyCell, CellC>>, <<CellA, CellB, CellC>>}

\* what image_to_string answers for a cell in the modes 7, 8, 6, 11: a longer
\* text in a later mode; texts of the same length; nothing at all; a bubble
\* sign, empty once corrected; exceptions before a text; a text with bubble
\* signs, longer than another before the correction and shorter after it; a
\* text with a ruling read as a bar; a text on two lines
CellAnswerPool ==
    { <<Chars("ab\n"), Chars("abc"), <<>>, OcrRaise>>,
      <<Chars("xy"), Chars("xz"), OcrRaise, Chars("x")>>,
      <<<<>>, Chars(" \n"), OcrRaise, <<>>>>,
      <<Chars("©"), OcrRaise, <<>>, <<>>>>,
      <<OcrRaise, OcrRaise, OcrRaise, Chars("ok")>>,
      <<Chars("©©©7"), Chars("b12"), <<>>, <<>>>>,
      <<Chars("| 42"), Chars("42"), <<>>, OcrRaise>>,
      <<Chars("7"), OcrRaise, Chars("up\ndown\n"), <<>>>> }

\* the image of the cells: every cell that is not too small is read as one of
\* the answers; the small one is never read
CellsImages(table_cells) ==
    {[width |-> 400, height |-> 300, cell_prep |-> prep, cell_ocr |-> ocr] :
        prep \in {"ok", "raise"},
        ocr \in [Range(table_cells) \ {TinyCell} -> CellAnswerPool]}

(***************************************************************************)
(* openai_pdf_md.py: convert_with_retry.  What parser.convert_pdf does is  *)
(* the environment's: it returns the pages or raises an exception, which   *)
(* is followed by its message.                                             *)
(***************************************************************************)
\* `sub in t`
HasSubstring(t, sub) ==
    \E k \in 0..(Len(t) - Len(sub)) : SubSeq(t, k + 1, k + Len(sub)) = sub

\* lines 39-41: the message of the exception names a connection error
IsConnectionError(message) ==
    LET error_msg == Lower(message)
    IN  \/ HasSubstring(error_msg, Chars("connection"))
        \/ HasSubstring(error_msg, Chars("timeout"))
        \/ HasSubstring(error_msg, Chars("network"))

\* the wait repeated as it was
SameDelay(retry_delay) == retry_delay

\* line 45: retry_delay *= 2
NextDelay(retry_delay) == retry_delay * 2

\* the pages returned by parser.convert_pdf
Pages == <<"pages">>

\* the messages of the exceptions parser.convert_pdf raises
MessagePool == {Chars("Connection reset by peer"), Chars("Read TIMEOUT"),
                Chars("network is unreachable"), Chars("invalid PDF header")}

\* the message of the exception raised after the last attempt (line 48); the
\* number of attempts stands for its text
ConnectionFailed(max_retries, message) ==
    Chars("Connection failed after ") \o <<DigitAt(max_retries)>> \o Chars(" attempts: ") \o message

MaxRetries == 3

DelayPool == {1, 5}

(***************************************************************************)
(* R_Rmd.py: convert_r_to_rmd, from the lines read from the R file to the  *)
(* lines written to the Rmd file.  A line is a text that ends with its     *)
(* line break.                                                             *)
(***************************************************************************)
max_empty_lines == 1

NameLinesUntil == 5

NameLengthBelow == 30

MaxHeaderLevel == 6

\* the grave accent, a character that a string of this language cannot hold
GraveAccent == "grave accent"

\* the three grave accents of a fence
Fence == <<GraveAccent, GraveAccent, GraveAccent>>

\* str.upper()
Upper(t) ==
    [i \in 1..Len(t) |->
        IF t[i] \in Lowers THEN CHOOSE u \in Uppers : LowerOf[u] = t[i] ELSE t[i]]

\* str.lstrip('#')
RECURSIVE LStripHash(_)
LStripHash(t) == IF t # <<>> /\ Head(t) = "#" THEN LStripHash(Tail(t)) ELSE t

\* '#' * n
RECURSIVE Hashes(_)
Hashes(n) == IF n <= 0 THEN <<>> ELSE <<"#">> \o Hashes(n - 1)

\* lines 80-86: a line of = and - only
is_separator_line(text) ==
    LET t == Strip(text)
    IN  /\ t # <<>>
        /\ \A i \in 1..Len(t) : t[i] \in {"=", "-", " "}
        /\ (Contains(t, "=") \/ Contains(t, "-"))

\* lines 88-97: the accumulated code goes to the output, after the opening
\* fence when no chunk is open
flush_code_chunk(st) ==
    IF st.current_code # <<>>
    THEN [st EXCEPT !.rmd_lines = (IF ~st.in_code_chunk
                                   THEN Append(@, Fence \o Chars("{r}\n"))
                                   ELSE @) \o st.current_code,
                    !.in_code_chunk = TRUE,
                    !.current_code = <<>>]
    ELSE st

\* lines 99-107: the closing fence and an empty line
close_code_chunk(st) ==
    IF st.in_code_chunk
    THEN [st EXCEPT !.rmd_lines = @ \o <<Fence \o <<"\n">>, Chars("\n")>>,
                    !.in_code_chunk = FALSE,
                    !.last_added = "code"]
    ELSE st

\* lines 109-132: the markdown of a comment line, None for a separator
process_comment(comment_text, stripped_line) ==
    LET text == Strip(Tail(comment_text))
        hash_count == Len(stripped_line) - Len(LStripHash(stripped_line))
        stripped_header == Strip(SubSeq(stripped_line, hash_count + 1, Len(stripped_line)))
        header_text == IF StartsWith(stripped_header, <<" ">>)
                       THEN Tail(stripped_header)
                       ELSE stripped_header
    IN  IF is_separator_line(text) THEN NoneValue
        ELSE IF StartsWith(stripped_line, Chars("##"))
        THEN Hashes(Min2(hash_count, MaxHeaderLevel)) \o <<" ">> \o header_text \o <<"\n">>
        ELSE IF \/ HasSubstring(Upper(text), Chars("ANALYSIS"))
                \/ HasSubstring(Upper(text), Chars("SECTION"))
        THEN Chars("## ") \o text \o <<"\n">>
        ELSE text \o <<"\n">>

\* f"**{nl}**  \n" for every collected name line
BoldLines(name_lines) ==
    [i \in 1..Len(name_lines) |-> Chars("**") \o name_lines[i] \o Chars("**  \n")]

\* lines 176-181: the name lines written before a comment
NamesBeforeComment(st) ==
    IF st.name_lines # <<>>
    THEN [st EXCEPT !.rmd_lines = @ \o BoldLines(st.name_lines) \o <<Chars("\n")>>,
                    !.name_lines = <<>>,
                    !.last_added = "name"]
    ELSE st

\* lines 193-202 and 208-214: the name lines written before code or at the end
NamesBeforeCode(st) ==
    IF st.name_lines # <<>>
    THEN [st EXCEPT !.rmd_lines =
                        IF Len(st.name_lines) = 1
                        THEN Append(@, Chars("**") \o st.name_lines[1] \o Chars("**\n\n"))
                        ELSE @ \o BoldLines(st.name_lines) \o <<Chars("\n")>>,
                    !.name_lines = <<>>,
                    !.last_added = "name"]
    ELSE st

\* lines 140-156: an empty line
EmptyLine(st) ==
    LET counted == [st EXCEPT !.consecutive_empty_lines = @ + 1]
    IN  IF ~counted.in_code_chunk
        THEN IF counted.consecutive_empty_lines <= max_empty_lines
             THEN [counted EXCEPT !.rmd_lines = Append(@, Chars("\n"))]
             ELSE counted
        ELSE IF counted.consecutive_empty_lines >= 2
        THEN LET closed == close_code_chunk(flush_code_chunk(counted))
             IN  [closed EXCEPT !.rmd_lines = IF counted.consecutive_empty_lines = 2
                                              THEN Append(@, Chars("\n"))
                                              ELSE @,
                                !.consecutive_empty_lines = 0]
        ELSE counted

\* lines 160-189: a comment line
CommentLine(st, stripped) ==
    LET closed == close_code_chunk(flush_code_chunk(st))
        md_line == process_comment(stripped, stripped)
        comment_text_after_hash == Strip(Tail(stripped))
        named == NamesBeforeComment(closed)
        is_header == StartsWith(md_line, <<"#">>)
    IN  IF md_line = NoneValue THEN closed
        ELSE IF /\ st.line_number <= NameLinesUntil
                /\ ~is_separator_line(comment_text_after_hash)
                /\ Len(comment_text_after_hash) < NameLengthBelow
        THEN [closed EXCEPT !.name_lines = Append(@, Strip(md_line))]
        ELSE [named EXCEPT !.rmd_lines = Append(@, md_line)
                               \o (IF is_header \/ named.last_added # "comment"
                                   THEN <<Chars("\n")>>
                                   ELSE <<>>),
                           !.last_added = "comment"]

\* lines 190-205: a code line
CodeLine(st, original_line) ==
    [NamesBeforeCode(st) EXCEPT !.current_code = Append(@, original_line)]

\* lines 135-205: one turn of the loop over the lines
ProcessLine(st, line) ==
    LET numbered == [st EXCEPT !.line_number = @ + 1]
        stripped == Strip(line)
        not_empty == [numbered EXCEPT !.consecutive_empty_lines = 0]
    IN  IF stripped = <<>> THEN EmptyLine(numbered)
        ELSE IF StartsWith(stripped, <<"#">>) THEN CommentLine(not_empty, stripped)
        ELSE CodeLine(not_empty, line)

\* lines 220-230: runs of empty lines collapsed into one
RECURSIVE Collapse(_, _)
Collapse(rmd_lines, prev_was_empty) ==
    IF rmd_lines = <<>> THEN <<>>
    ELSE IF Head(rmd_lines) = Chars("\n")
    THEN (IF prev_was_empty THEN <<>> ELSE <<Head(rmd_lines)>>)
             \o Collapse(Tail(rmd_lines), TRUE)
    ELSE <<Head(rmd_lines)>> \o Collapse(Tail(rmd_lines), FALSE)

\* lines 235-239: the empty lines at the end replaced by one
RECURSIVE DropEmptyEnd(_)
DropEmptyEnd(rmd_lines) ==
    IF rmd_lines # <<>> /\ rmd_lines[Len(rmd_lines)] = Chars("\n")
    THEN DropEmptyEnd(SubSeq(rmd_lines, 1, Len(rmd_lines) - 1))
    ELSE rmd_lines

EndWithEmpty(rmd_lines) ==
    IF DropEmptyEnd(rmd_lines) # <<>>
    THEN Append(DropEmptyEnd(rmd_lines), Chars("\n"))
    ELSE <<>>

\* lines 207-239: what is written once the lines are read
Finished(st) ==
    EndWithEmpty(Collapse(close_code_chunk(flush_code_chunk(NamesBeforeCode(st))).rmd_lines,
                          FALSE))

\* lines 62-78: the header and the state before the first line
RmdStart ==
    [rmd_lines |-> <<Chars("---\n"), Chars("title: \"R Analysis\"\n"),
                     Chars("output: pdf_document\n"), Chars("---\n"), Chars("\n")>>,
     in_code_chunk |-> FALSE,
     current_code |-> <<>>,
     consecutive_empty_lines |-> 0,
     line_number |-> 0,
     name_lines |-> <<>>,
     last_added |-> "None"]

MaxRLines == 4

\* the lines of the R files: code, empty and blank lines, a short comment, a
\* header, a separator, a long comment
RLinePool ==
    {Chars("x <- 1\n"), Chars("  y <- 2\n"), Chars("\n"), Chars("  \n"), Chars("# c\n"),
     Chars("## Head\n"), Chars("# ====\n"),
     Chars("# the analysis of the data comes next\n")}

RFiles == UNION {[1..n -> RLinePool] : n \in 0..MaxRLines}

(***************************************************************************)
(* pdf_md.py: one turn of the loop over the PDF files.  What pdfplumber,   *)
(* pytesseract, pdfminer and pypdf do with the file is the environment's:  *)
(* a library answers with a text (None for a page without text) or raises, *)
(* which is the answer OcrRaise.                                           *)
(***************************************************************************)
\* "\n\n", what follows the text of a page
PageEnd == <<"\n", "\n">>

\* lines 47-51: the pages pdfplumber extracts, up to an exception
RECURSIVE PlumberPages(_, _)
PlumberPages(text, answers) ==
    IF answers = <<>> THEN [text |-> text, raised |-> FALSE]
    ELSE IF Head(answers) = OcrRaise THEN [text |-> text, raised |-> TRUE]
    ELSE PlumberPages(IF Truthy(Head(answers)) THEN text \o Head(answers) \o PageEnd
                      ELSE text,
                      Tail(answers))

\* lines 62-78: the pages pytesseract reads, up to an exception
RECURSIVE OcrPages(_, _)
OcrPages(text, answers) ==
    IF answers = <<>> THEN [text |-> text, raised |-> FALSE]
    ELSE IF Head(answers) = OcrRaise THEN [text |-> text, raised |-> TRUE]
    ELSE OcrPages(IF Strip(Head(answers)) # <<>> THEN text \o Head(answers) \o PageEnd
                  ELSE text,
                  Tail(answers))

\* lines 291-294: the pages pypdf extracts, up to an exception
RECURSIVE PypdfPages(_, _)
PypdfPages(text, answers) ==
    IF answers = <<>> THEN [text |-> text, raised |-> FALSE]
    ELSE IF Head(answers) = OcrRaise THEN [text |-> text, raised |-> TRUE]
    ELSE PypdfPages(text \o Head(answers) \o PageEnd, Tail(answers))

\* line 271: re.sub(r'\n\s*\n\s*\n', '\n\n', text)
ExcessiveBreaks ==
    RuleLit(<<Lit("\n"), AtomSStar, Lit("\n"), AtomSStar, Lit("\n")>>, PageEnd)

\* line 272: re.sub(r' +', ' ', text)
MultipleSpaces(text) ==
    LET kept == Positions(text, {i \in 1..Len(text) : text[i] # " " \/ Ch(text, i - 1) # " "})
    IN  [k \in 1..Len(kept) |-> text[kept[k]]]

\* lines 81-272: the substitutions made in a text read by OCR.  Those of
\* lines 86-268 need a digit, a Greek letter, an operator sign or one of the
\* words of statistics they look for, and leave every text of the pools below
\* as it is.
OcrFixes(text) ==
    IF text # <<>> THEN MultipleSpaces(ReSub(ExcessiveBreaks, text)) ELSE text

\* line 300
CouldNotExtract(filename) == Chars("Error: Could not extract text from ") \o filename

MaxPages == 2

PlumberPool == {NoneValue, Chars("  "), Chars("Pl um"), OcrRaise}

OcrPool == {<<>>, Chars("Oc  r\n"), OcrRaise}

MinerPool == {<<>>, Chars("Mi\n\n\nne"), OcrRaise}

PypdfPool == {<<>>, Chars("Py"), OcrRaise}

\* the answers for the pages of a file: nothing follows an exception
PageAnswers(pool, n) ==
    {a \in [1..n -> pool] : \A i \in 1..(n - 1) : a[i] = OcrRaise => a[i + 1] = OcrRaise}

\* what the libraries do with the files of n pages
PdfsOf(n) ==
    {[filename |-> Chars("a.pdf"), plumber |-> pl, ocr |-> oc, miner |-> mi, pypdf |-> py,
      writable |-> w] :
        pl \in PageAnswers(PlumberPool, n),
        oc \in PageAnswers(OcrPool, n),
        mi \in MinerPool,
        py \in PageAnswers(PypdfPool, n),
        w \in BOOLEAN}

PdfPool == UNION {PdfsOf(n) : n \in 1..MaxPages}

(***************************************************************************)
(* The state.  Several programs are followed: main over a folder of        *)
(* images, one call of group_cells_into_rows, one call of                  *)
(* extract_with_multiple_psm_modes, two successive calls of                *)
(* fix_common_ocr_errors, one call of detect_table_structure, one run of   *)
(* combine_files.py with arguments, one call of                            *)
(* detect_and_group_table_lines, one call of are_texts_similar, one call   *)
(* of extract_table_cells, one call of convert_with_retry, one conversion *)
(* of convert_r_to_rmd, one PDF file of pdf_md.py.  Each specification     *)
(* runs one of them and leaves the variables of the others at rest.        *)
(***************************************************************************)
MaxImages == 2

MaxCells == 3

\* the output file before it is ever written
NoFile == <<"absent">>

\* what a previous run may have left in the output file
StaleText == Chars("text of an earlier run")

VARIABLES
    pc,              \* where main is: "start", "loop", "done", "exit", "raised"
    image_files,     \* the image files found, as indices into ImagePool
    done,            \* how many of them the loop has handled
    passed,          \* the positions of the files passed to
                     \* convert_image_to_structured_text, in the order of the calls
    conv,            \* the last conversion: its locals and returned value
    all_text_parts,
    combined_file,   \* the content of all_extracted_structured_text.txt
    file_before,     \* its content when main started
    writes,          \* how many times main has opened it for writing
    g_pc,            \* where group_cells_into_rows is: "call", "loop", "done"
    g_table_cells,   \* its argument
    g_row_tolerance,
    g_sorted_cells,
    g_next,          \* the index in g_sorted_cells of the cell the loop takes next
    g_loop,          \* rows, current_row, current_row_y
    g_rows,          \* the returned rows
    p_pc,            \* where extract_with_multiple_psm_modes is: "modes", "dedup", "done"
    p_page_ocr,      \* the answers of the engine in the modes 6, 11, 4, 3
    p_mode,          \* the index in psm_modes of the mode tried next
    p_results,
    p_next,          \* the index in p_results of the result de-duplicated next
    p_unique_results,
    p_text,          \* the returned text
    f_pc,            \* the calls of fix_common_ocr_errors made: "call", "once", "twice"
    f_text,          \* the text given to the first call
    f_once,          \* what the first call returned
    f_twice,         \* what the second call, given f_once, returned
    d_pc,            \* where detect_table_structure is: "call", "regions",
                     \* "return", "done"
    d_image,         \* what OpenCV finds in its argument
    d_text_regions,
    d_rows,          \* the rows the text regions were grouped into
    d_promoted,      \* whether the text regions replaced the line-detected cells
    d_table_cells,   \* table_cells, before the coordinates are scaled back
    d_returned,      \* the table_cells returned
    c_pc,            \* where combine_files.py is: "call", "combine", "write", "done"
    c_args,          \* sys.argv[1:]
    c_folder,        \* the paths of the files in input/
    c_libs,          \* HAS_PIL and HAS_PDF
    c_input_files,   \* main's input_files
    c_output_file,   \* main's output_file
    c_full_input_paths,
    c_output_name,
    c_written,       \* the path of the file combine_files wrote
    c_success,       \* what combine_files returned
    l_pc,            \* where detect_and_group_table_lines is: "call", "group",
                     \* "replace", "done"
    l_lines,         \* its argument
    l_table_cell_indices,
    l_table_cells,
    l_best_column_count,
    l_table_rows,
    l_result,        \* the returned lines
    s_pc,            \* the call of are_texts_similar: "call", "done"
    s_text1,
    s_text2,
    s_threshold,     \* a quotient, <<numerator, denominator>>
    s_similar,       \* what it returned
    e_pc,            \* where extract_table_cells is: "call", "next", "modes",
                     \* "keep", "done", "raised"
    e_image,         \* its image: the shape of gray and the engine's answers
    e_table_cells,   \* its argument table_cells
    e_rows,
    e_row,           \* the index in rows of the row handled
    e_cell,          \* the index in that row of the cell handled next
    e_mode,          \* the index in CellsModes of the mode tried next
    e_attempts,      \* the calls of image_to_string made: <<cell, psm>>
    e_cell_texts_tried,
    e_kept,          \* for every cell read: <<row index, cell, text kept>>
    e_row_texts,
    e_cell_texts,
    e_text,          \* the returned text
    r_pc,            \* where convert_with_retry is: "try", "sleep", "returned",
                     \* "raised"
    r_max_retries,
    r_retry_delay,
    r_first_delay,   \* retry_delay as the caller gave it
    r_attempt,
    r_outcomes,      \* what each call of parser.convert_pdf did: Pages or the
                     \* message of its exception
    r_sleeps,        \* the arguments of the calls of time.sleep
    r_result,        \* the value returned or the message of the exception raised
    k_pc,            \* where convert_r_to_rmd is: "lines", "written"
    k_lines,         \* the lines read from the R file
    k_locals,        \* rmd_lines and the state kept from line to line
    k_written,       \* the lines written to the Rmd file
    m_pc,            \* where pdf_md.py is with the file: "pdfplumber", "ocr",
                     \* "pdfminer", "pypdf", "write", "written", "not written"
    m_pdf,           \* the file: what the libraries do with it
    m_text,
    m_tried,         \* the methods run, in the order they were run
    m_written        \* the content of the markdown file

main_vars == <<pc, image_files, done, passed, conv, all_text_parts, combined_file,
               file_before, writes>>

g_vars == <<g_pc, g_table_cells, g_row_tolerance, g_sorted_cells, g_next, g_loop, g_rows>>

p_vars == <<p_pc, p_page_ocr, p_mode, p_results, p_next, p_unique_results, p_text>>

f_vars == <<f_pc, f_text, f_once, f_twice>>

d_vars == <<d_pc, d_image, d_text_regions, d_rows, d_promoted, d_table_cells,
           d_returned>>

c_vars == <<c_pc, c_args, c_folder, c_libs, c_input_files, c_output_file,
            c_full_input_paths, c_output_name, c_written, c_success>>

l_vars == <<l_pc, l_lines, l_table_cell_indices, l_table_cells, l_best_column_count,
            l_table_rows, l_result>>

s_vars == <<s_pc, s_text1, s_text2, s_threshold, s_similar>>

e_vars == <<e_pc, e_image, e_table_cells, e_rows, e_row, e_cell, e_mode, e_attempts,
            e_cell_texts_tried, e_kept, e_row_texts, e_cell_texts, e_text>>

r_vars == <<r_pc, r_max_retries, r_retry_delay, r_first_delay, r_attempt, r_outcomes, r_sleeps,
            r_result>>

k_vars == <<k_pc, k_lines, k_locals, k_written>>

m_vars == <<m_pc, m_pdf, m_text, m_tried, m_written>>

final_vars == <<r_vars, k_vars, m_vars>>

last_vars == <<s_vars, e_vars, final_vars>>

later_vars == <<c_vars, l_vars, last_vars>>

first_vars == <<main_vars, g_vars, p_vars, f_vars, d_vars, c_vars, l_vars>>

before_final_vars == <<first_vars, s_vars, e_vars>>

more_vars == <<f_vars, d_vars, later_vars>>

vars == <<main_vars, g_vars, p_vars, more_vars>>

NoConversion == [Raised EXCEPT !.exc = FALSE]

MainAtRest ==
    /\ pc = "rest"
    /\ image_files = <<>>
    /\ done = 0
    /\ passed = <<>>
    /\ conv = NoConversion
    /\ all_text_parts = <<>>
    /\ combined_file = NoFile
    /\ file_before = NoFile
    /\ writes = 0

GroupAtRest ==
    /\ g_pc = "rest"
    /\ g_table_cells = <<>>
    /\ g_row_tolerance = <<MinRowTolerance, 1>>
    /\ g_sorted_cells = <<>>
    /\ g_next = 1
    /\ g_loop = GroupStart
    /\ g_rows = <<>>

PageAtRest ==
    /\ p_pc = "rest"
    /\ p_page_ocr = NoAnswers
    /\ p_mode = 1
    /\ p_results = <<>>
    /\ p_next = 1
    /\ p_unique_results = <<>>
    /\ p_text = <<>>

FixAtRest ==
    /\ f_pc = "rest"
    /\ f_text = <<>>
    /\ f_once = <<>>
    /\ f_twice = <<>>

DetectAtRest ==
    /\ d_pc = "rest"
    /\ d_image = NoFindings
    /\ d_text_regions = <<>>
    /\ d_rows = <<>>
    /\ d_promoted = FALSE
    /\ d_table_cells = <<>>
    /\ d_returned = <<>>

\* the programs other than main, group_cells_into_rows and
\* extract_with_multiple_psm_modes
CombineAtRest ==
    /\ c_pc = "rest"
    /\ c_args = <<>>
    /\ c_folder = {}
    /\ c_libs = [HAS_PIL |-> TRUE, HAS_PDF |-> TRUE]
    /\ c_input_files = <<>>
    /\ c_output_file = NoneValue
    /\ c_full_input_paths = <<>>
    /\ c_output_name = NoneValue
    /\ c_written = NoneValue
    /\ c_success = FALSE

LinesAtRest ==
    /\ l_pc = "rest"
    /\ l_lines = <<>>
    /\ l_table_cell_indices = {}
    /\ l_table_cells = <<>>
    /\ l_best_column_count = 3
    /\ l_table_rows = <<>>
    /\ l_result = <<>>

SimilarAtRest ==
    /\ s_pc = "rest"
    /\ s_text1 = <<>>
    /\ s_text2 = <<>>
    /\ s_threshold = DefaultThreshold
    /\ s_similar = FALSE

CellsAtRest ==
    /\ e_pc = "rest"
    /\ e_image = [width |-> 0, height |-> 0, cell_prep |-> "ok", cell_ocr |-> <<>>]
    /\ e_table_cells = <<>>
    /\ e_rows = <<>>
    /\ e_row = 1
    /\ e_cell = 1
    /\ e_mode = 1
    /\ e_attempts = <<>>
    /\ e_cell_texts_tried = <<>>
    /\ e_kept = <<>>
    /\ e_row_texts = <<>>
    /\ e_cell_texts = <<>>
    /\ e_text = <<>>

RetryAtRest ==
    /\ r_pc = "rest"
    /\ r_max_retries = 3
    /\ r_retry_delay = 5
    /\ r_first_delay = 5
    /\ r_attempt = 0
    /\ r_outcomes = <<>>
    /\ r_sleeps = <<>>
    /\ r_result = NoneValue

RmdAtRest ==
    /\ k_pc = "rest"
    /\ k_lines = <<>>
    /\ k_locals = RmdStart
    /\ k_written = <<>>

PdfAtRest ==
    /\ m_pc = "rest"
    /\ m_pdf = <<>>
    /\ m_text = <<>>
    /\ m_tried = <<>>
    /\ m_written = NoFile

FinalAtRest == RetryAtRest /\ RmdAtRest /\ PdfAtRest

LastAtRest == SimilarAtRest /\ CellsAtRest /\ FinalAtRest

LaterAtRest == CombineAtRest /\ LinesAtRest /\ LastAtRest

FirstAtRest ==
    /\ MainAtRest
    /\ GroupAtRest
    /\ PageAtRest
    /\ FixAtRest
    /\ DetectAtRest
    /\ CombineAtRest
    /\ LinesAtRest

BeforeFinalAtRest == FirstAtRest /\ SimilarAtRest /\ CellsAtRest

MoreAtRest == FixAtRest /\ DetectAtRest /\ LaterAtRest

(***************************************************************************)
(* main: the batch over the image files of the input folder.               *)
(***************************************************************************)
Init ==
    /\ pc = "start"
    /\ image_files \in UNION {[1..n -> 1..Len(ImagePool)] : n \in 0..MaxImages}
    /\ done = 0
    /\ passed = <<>>
    /\ conv = NoConversion
    /\ all_text_parts = <<>>
    /\ combined_file \in {NoFile, StaleText}
    /\ file_before = combined_file
    /\ writes = 0
    /\ GroupAtRest
    /\ PageAtRest
    /\ MoreAtRest

\* lines 888-917: no image file ends the run with sys.exit(1)
ListImages ==
    /\ pc = "start"
    /\ pc' = IF image_files = <<>> THEN "exit" ELSE "loop"
    /\ UNCHANGED <<image_files, done, passed, conv, all_text_parts, combined_file,
                   file_before, writes, g_vars, p_vars, more_vars>>

\* one iteration of the loop (lines 920-932); an exception leaving
\* convert_image_to_structured_text would end main
ConvertNext ==
    /\ pc = "loop"
    /\ done < Len(image_files)
    /\ \E r \in {Converted[image_files[done + 1]]} :
       /\ conv' = r
       /\ passed' = Append(passed, done + 1)
       /\ IF r.exc
          THEN /\ pc' = "raised"
               /\ UNCHANGED <<done, all_text_parts>>
          ELSE /\ pc' = "loop"
               /\ done' = done + 1
               /\ all_text_parts' = IF Truthy(r.ret) THEN Append(all_text_parts, r.ret)
                                    ELSE all_text_parts
    /\ UNCHANGED <<image_files, combined_file, file_before, writes, g_vars, p_vars,
                   more_vars>>

\* the parts joined by a single newline
JoinLines(parts) == Join(<<"\n">>, parts)

\* '\n\n'.join(all_text_parts) (line 937)
JoinParts(parts) == Join(<<"\n", "\n">>, parts)

\* a file written whatever was collected
AlwaysWritten(parts) == TRUE

\* `if all_text_parts:` (line 935)
HasParts(parts) == parts # <<>>

\* lines 934-940
WriteOutput ==
    /\ pc = "loop"
    /\ done = Len(image_files)
    /\ pc' = "done"
    /\ IF HasParts(all_text_parts)
       THEN /\ combined_file' = JoinParts(all_text_parts)
            /\ writes' = writes + 1
       ELSE UNCHANGED <<combined_file, writes>>
    /\ UNCHANGED <<image_files, done, passed, conv, all_text_parts, file_before,
                   g_vars, p_vars, more_vars>>

Next == ListImages \/ ConvertNext \/ WriteOutput

Spec == Init /\ [][Next]_vars

(***************************************************************************)
(* One call of group_cells_into_rows, an iteration of its loop at a time.  *)
(***************************************************************************)
GroupInit ==
    /\ g_pc = "call"
    /\ g_table_cells \in UNION {[1..n -> CellPool] : n \in 0..MaxCells}
    /\ g_row_tolerance = <<MinRowTolerance, 1>>
    /\ g_sorted_cells = <<>>
    /\ g_next = 1
    /\ g_loop = GroupStart
    /\ g_rows = <<>>
    /\ MainAtRest
    /\ PageAtRest
    /\ MoreAtRest

\* lines 478-491
GroupBegin ==
    /\ g_pc = "call"
    /\ IF g_table_cells = <<>>
       THEN /\ g_pc' = "done"
            /\ UNCHANGED <<g_row_tolerance, g_sorted_cells>>
       ELSE /\ g_pc' = "loop"
            /\ g_row_tolerance' = RowTolerance(g_table_cells)
            /\ g_sorted_cells' = StableSort("yx", g_table_cells)
    /\ UNCHANGED <<g_table_cells, g_next, g_loop, g_rows, main_vars, p_vars, more_vars>>

\* lines 493-512
GroupStep ==
    /\ g_pc = "loop"
    /\ g_next <= Len(g_sorted_cells)
    /\ g_loop' = GroupIter(g_loop, g_sorted_cells[g_next], g_row_tolerance)
    /\ g_next' = g_next + 1
    /\ UNCHANGED <<g_pc, g_table_cells, g_row_tolerance, g_sorted_cells, g_rows,
                   main_vars, p_vars, more_vars>>

\* lines 514-519
GroupEnd ==
    /\ g_pc = "loop"
    /\ g_next > Len(g_sorted_cells)
    /\ g_rows' = GroupFinish(g_loop)
    /\ g_pc' = "done"
    /\ UNCHANGED <<g_table_cells, g_row_tolerance, g_sorted_cells, g_next, g_loop,
                   main_vars, p_vars, more_vars>>

GroupNext == GroupBegin \/ GroupStep \/ GroupEnd

SpecGroup == GroupInit /\ [][GroupNext]_vars

(***************************************************************************)
(* One call of extract_with_multiple_psm_modes, an iteration of its loops  *)
(* at a time.                                                              *)
(***************************************************************************)
PageInit ==
    /\ p_pc = "modes"
    /\ p_page_ocr \in [1..Len(psm_modes) -> PageAnswerPool]
    /\ p_mode = 1
    /\ p_results = <<>>
    /\ p_next = 1
    /\ p_unique_results = <<>>
    /\ p_text = <<>>
    /\ MainAtRest
    /\ GroupAtRest
    /\ MoreAtRest

\* one iteration of the loop of lines 621-637
TryMode ==
    /\ p_pc = "modes"
    /\ p_mode <= Len(psm_modes)
    /\ p_results' = p_results \o ModeResults(p_page_ocr, p_mode)
    /\ p_mode' = p_mode + 1
    /\ UNCHANGED <<p_pc, p_page_ocr, p_next, p_unique_results, p_text, main_vars, g_vars, more_vars>>

\* lines 639-643: without results "" is returned
AfterModes ==
    /\ p_pc = "modes"
    /\ p_mode > Len(psm_modes)
    /\ p_pc' = IF p_results = <<>> THEN "done" ELSE "dedup"
    /\ UNCHANGED <<p_page_ocr, p_mode, p_results, p_next, p_unique_results, p_text,
                   main_vars, g_vars, more_vars>>

\* one iteration of the loop of lines 644-656
DedupNext ==
    /\ p_pc = "dedup"
    /\ p_next <= Len(p_results)
    /\ p_unique_results' = DedupStep(p_unique_results, p_results[p_next])
    /\ p_next' = p_next + 1
    /\ UNCHANGED <<p_pc, p_page_ocr, p_mode, p_results, p_text, main_vars, g_vars, more_vars>>

\* lines 658-663
ReturnBest ==
    /\ p_pc = "dedup"
    /\ p_next > Len(p_results)
    /\ p_text' = BestText(p_unique_results)
    /\ p_pc' = "done"
    /\ UNCHANGED <<p_page_ocr, p_mode, p_results, p_next, p_unique_results,
                   main_vars, g_vars, more_vars>>

PageNext == TryMode \/ AfterModes \/ DedupNext \/ ReturnBest

SpecPage == PageInit /\ [][PageNext]_vars
(***************************************************************************)
(* fix_common_ocr_errors called on a text and then on its own result.      *)
(***************************************************************************)
\* the characters of the texts given to fix_common_ocr_errors: the letters
\* and digits the substitution rules read and write, the circle sign, a
\* punctuation mark and the separators
FixAlphabet == {"l", "I", "i", "t", "1", "a", "O", "o", "©", "-", " ", "\n"}

MaxTextLen == 3

FixInit ==
    /\ f_pc = "call"
    /\ f_text \in UNION {[1..n -> FixAlphabet] : n \in 0..MaxTextLen}
    /\ f_once = <<>>
    /\ f_twice = <<>>
    /\ MainAtRest
    /\ GroupAtRest
    /\ PageAtRest
    /\ DetectAtRest
    /\ LaterAtRest

FixFirst ==
    /\ f_pc = "call"
    /\ f_once' = fix_common_ocr_errors(f_text)
    /\ f_pc' = "once"
    /\ UNCHANGED <<f_text, f_twice, main_vars, g_vars, p_vars, d_vars, later_vars>>

FixSecond ==
    /\ f_pc = "once"
    /\ f_twice' = fix_common_ocr_errors(f_once)
    /\ f_pc' = "twice"
    /\ UNCHANGED <<f_text, f_once, main_vars, g_vars, p_vars, d_vars, later_vars>>

FixNext == FixFirst \/ FixSecond

SpecFix == FixInit /\ [][FixNext]_vars

(***************************************************************************)
(* One call of detect_table_structure.                                     *)
(***************************************************************************)
DetectInit ==
    /\ d_pc = "call"
    /\ \E w \in WidthPool, contours \in ContourPool, stats \in StatsPool :
           d_image = FindingsOf(w, contours, stats)
    /\ d_text_regions = <<>>
    /\ d_rows = <<>>
    /\ d_promoted = FALSE
    /\ d_table_cells = <<>>
    /\ d_returned = <<>>
    /\ MainAtRest
    /\ GroupAtRest
    /\ PageAtRest
    /\ FixAtRest
    /\ LaterAtRest

\* lines 31-94: line detection
DetectLines ==
    /\ d_pc = "call"
    /\ d_table_cells' = LineCells(d_image)
    /\ d_pc' = IF TryTextRegions(d_table_cells') THEN "regions" ELSE "return"
    /\ UNCHANGED <<d_image, d_text_regions, d_rows, d_promoted, d_returned,
                   main_vars, g_vars, p_vars, f_vars, later_vars>>

\* lines 95-176: text region detection and its validation
DetectRegions ==
    /\ d_pc = "regions"
    /\ d_text_regions' = TextRegions(d_image)
    /\ d_rows' = IF Len(d_text_regions') >= MinTextRegions
                 THEN RegionRows(d_text_regions') ELSE <<>>
    /\ d_promoted' = RegionsFormTable(d_image, d_text_regions')
    /\ d_table_cells' = IF d_promoted' THEN d_text_regions' ELSE d_table_cells
    /\ d_pc' = "return"
    /\ UNCHANGED <<d_image, d_returned, main_vars, g_vars, p_vars, f_vars, later_vars>>

\* lines 178-201
DetectReturn ==
    /\ d_pc = "return"
    /\ d_returned' = ScaleBack(d_image, d_table_cells)
    /\ d_pc' = "done"
    /\ UNCHANGED <<d_image, d_text_regions, d_rows, d_promoted, d_table_cells,
                   main_vars, g_vars, p_vars, f_vars, later_vars>>

DetectNext == DetectLines \/ DetectRegions \/ DetectReturn

SpecDetect == DetectInit /\ [][DetectNext]_vars

(***************************************************************************)
(* One run of combine_files.py with at least one argument.  (Without       *)
(* arguments main combines every file of input/; that branch, lines        *)
(* 228-250, is not followed.)                                              *)
(***************************************************************************)
CombineInit ==
    /\ c_pc = "call"
    /\ c_args \in UNION {[1..n -> NamePool] : n \in 1..MaxArgs}
    /\ c_folder \in FolderPool
    /\ c_libs \in [HAS_PIL : BOOLEAN, HAS_PDF : BOOLEAN]
    /\ c_input_files = <<>>
    /\ c_output_file = NoneValue
    /\ c_full_input_paths = <<>>
    /\ c_output_name = NoneValue
    /\ c_written = NoneValue
    /\ c_success = FALSE
    /\ MainAtRest
    /\ GroupAtRest
    /\ PageAtRest
    /\ FixAtRest
    /\ DetectAtRest
    /\ LinesAtRest
    /\ LastAtRest

\* main, lines 251-280: the arguments split into input files and output file
CombineParse ==
    /\ c_pc = "call"
    /\ c_input_files' = ParseArgs(c_args)[1]
    /\ c_output_file' = ParseArgs(c_args)[2]
    /\ c_pc' = "combine"
    /\ UNCHANGED <<c_args, c_folder, c_libs, c_full_input_paths, c_output_name,
                   c_written, c_success, main_vars, g_vars, p_vars, f_vars, d_vars,
                   l_vars, last_vars>>

\* combine_files, lines 57-98: the files found; none ends the call with False
CombineResolve ==
    /\ c_pc = "combine"
    /\ c_full_input_paths' = FullInputPaths(c_input_files, c_folder)
    /\ c_pc' = IF c_full_input_paths' = <<>> THEN "done" ELSE "write"
    /\ UNCHANGED <<c_args, c_folder, c_libs, c_input_files, c_output_file,
                   c_output_name, c_written, c_success, main_vars, g_vars, p_vars,
                   f_vars, d_vars, l_vars, last_vars>>

\* combine_files, lines 100-222: the output named and written
CombineWrite ==
    /\ c_pc = "write"
    /\ \E out \in {OutputOf(c_full_input_paths, c_output_file)} :
       /\ c_output_name' = out[1]
       /\ IF CanWrite(c_full_input_paths, out[2], c_libs)
          THEN /\ c_written' = Chars("output/") \o out[1]
               /\ c_success' = TRUE
          ELSE UNCHANGED <<c_written, c_success>>
    /\ c_pc' = "done"
    /\ UNCHANGED <<c_args, c_folder, c_libs, c_input_files, c_output_file,
                   c_full_input_paths, main_vars, g_vars, p_vars, f_vars, d_vars,
                   l_vars, last_vars>>

CombineNext == CombineParse \/ CombineResolve \/ CombineWrite

SpecCombine == CombineInit /\ [][CombineNext]_vars

(***************************************************************************)
(* One call of detect_and_group_table_lines.                               *)
(***************************************************************************)
LinesInit ==
    /\ l_pc = "call"
    /\ \E n \in 0..MaxLines : \E kinds \in [1..n -> {"token", "text", "blank"}] :
           l_lines = LinesOf(kinds)
    /\ l_table_cell_indices = {}
    /\ l_table_cells = <<>>
    /\ l_best_column_count = 3
    /\ l_table_rows = <<>>
    /\ l_result = <<>>
    /\ MainAtRest
    /\ GroupAtRest
    /\ PageAtRest
    /\ FixAtRest
    /\ DetectAtRest
    /\ CombineAtRest
    /\ LastAtRest

\* lines 674-688: the first pass; fewer than 4 tokens return the lines as given
LinesCollect ==
    /\ l_pc = "call"
    /\ l_table_cell_indices' = {i \in 1..Len(l_lines) : IsTableCellLine(l_lines[i])}
    /\ l_table_cells' = [k \in 1..Len(SelectSeq(l_lines, IsTableCellLine)) |->
                            Strip(SelectSeq(l_lines, IsTableCellLine)[k])]
    /\ IF l_lines = <<>> \/ Len(l_table_cells') < MinTableTokens
       THEN /\ l_result' = l_lines
            /\ l_pc' = "done"
       ELSE /\ l_result' = l_result
            /\ l_pc' = "group"
    /\ UNCHANGED <<l_lines, l_best_column_count, l_table_rows, main_vars, g_vars,
                   p_vars, f_vars, d_vars, c_vars, last_vars>>

\* lines 690-716: the column count chosen and the rows built
LinesGroup ==
    /\ l_pc = "group"
    /\ l_best_column_count' = BestColumnCount(Len(l_table_cells))
    /\ l_table_rows' = TableRows(l_table_cells, l_best_column_count')
    /\ l_pc' = "replace"
    /\ UNCHANGED <<l_lines, l_table_cell_indices, l_table_cells, l_result, main_vars,
                   g_vars, p_vars, f_vars, d_vars, c_vars, last_vars>>

\* lines 718-755: the second pass
LinesReplace ==
    /\ l_pc = "replace"
    /\ l_result' = SecondPass(l_lines, l_table_cell_indices, l_table_rows, 1, {}, <<>>)
    /\ l_pc' = "done"
    /\ UNCHANGED <<l_lines, l_table_cell_indices, l_table_cells, l_best_column_count,
                   l_table_rows, main_vars, g_vars, p_vars, f_vars, d_vars, c_vars, last_vars>>

LinesNext == LinesCollect \/ LinesGroup \/ LinesReplace

SpecLines == LinesInit /\ [][LinesNext]_vars

(***************************************************************************)
(* One call of are_texts_similar.                                          *)
(***************************************************************************)
\* the texts compared: empty and blank texts, texts that hold one another,
\* texts written differently, texts with some, all or none of their words in
\* common
SimilarTextPool ==
    {<<>>, <<" ">>, Chars("red"), Chars("red fox"), Chars("Red  Fox\n"),
     Chars("fox red"), Chars("red fox jumps"), Chars("blue cat"),
     Chars("a red fox jumps high"), Chars("blue")}

ThresholdPool == {<<1, 2>>, <<7, 10>>, <<1, 1>>}

SimilarInit ==
    /\ s_pc = "call"
    /\ s_text1 \in SimilarTextPool
    /\ s_text2 \in SimilarTextPool
    /\ s_threshold \in ThresholdPool
    /\ s_similar = FALSE
    /\ FirstAtRest
    /\ CellsAtRest
    /\ FinalAtRest

SimilarCall ==
    /\ s_pc = "call"
    /\ s_similar' = are_texts_similar(s_text1, s_text2, s_threshold)
    /\ s_pc' = "done"
    /\ UNCHANGED <<s_text1, s_text2, s_threshold, first_vars, e_vars, final_vars>>

SimilarNext == SimilarCall

SpecSimilar == SimilarInit /\ [][SimilarNext]_vars

(***************************************************************************)
(* One call of extract_table_cells, a cell and a mode at a time.           *)
(***************************************************************************)
CellsInit ==
    /\ e_pc = "call"
    /\ e_table_cells \in TableCellsPool
    /\ e_image \in CellsImages(e_table_cells)
    /\ e_rows = <<>>
    /\ e_row = 1
    /\ e_cell = 1
    /\ e_mode = 1
    /\ e_attempts = <<>>
    /\ e_cell_texts_tried = <<>>
    /\ e_kept = <<>>
    /\ e_row_texts = <<>>
    /\ e_cell_texts = <<>>
    /\ e_text = <<>>
    /\ FirstAtRest
    /\ SimilarAtRest
    /\ FinalAtRest

\* lines 531-547: without cells "" is returned; the cells are grouped into rows
CellsBegin ==
    /\ e_pc = "call"
    /\ e_rows' = group_cells_into_rows(e_table_cells)
    /\ e_pc' = IF e_table_cells = <<>> \/ e_rows' = <<>> THEN "done" ELSE "next"
    /\ UNCHANGED <<e_image, e_table_cells, e_row, e_cell, e_mode, e_attempts,
                   e_cell_texts_tried, e_kept, e_row_texts, e_cell_texts, e_text,
                   first_vars, s_vars, final_vars>>

\* lines 552-564: a cell whose image is too small is skipped
CellSkip ==
    /\ e_pc = "next"
    /\ e_row <= Len(e_rows)
    /\ e_cell <= Len(e_rows[e_row])
    /\ CellImgSize(e_image, e_rows[e_row][e_cell]) < MinCellSize
    /\ e_cell' = e_cell + 1
    /\ UNCHANGED <<e_pc, e_image, e_table_cells, e_rows, e_row, e_mode, e_attempts,
                   e_cell_texts_tried, e_kept, e_row_texts, e_cell_texts, e_text,
                   first_vars, s_vars, final_vars>>

\* lines 552-568: the image of the cell is prepared, which may raise
CellPrepare ==
    /\ e_pc = "next"
    /\ e_row <= Len(e_rows)
    /\ e_cell <= Len(e_rows[e_row])
    /\ CellImgSize(e_image, e_rows[e_row][e_cell]) >= MinCellSize
    /\ e_pc' = IF e_image.cell_prep = "raise" THEN "raised" ELSE "modes"
    /\ e_mode' = 1
    /\ e_cell_texts_tried' = <<>>
    /\ UNCHANGED <<e_image, e_table_cells, e_rows, e_row, e_cell, e_attempts, e_kept,
                   e_row_texts, e_cell_texts, e_text, first_vars, s_vars, final_vars>>

\* one iteration of the loop of lines 570-581
CellTryMode ==
    /\ e_pc = "modes"
    /\ e_mode <= Len(CellsModes)
    /\ \E answers \in {e_image.cell_ocr[e_rows[e_row][e_cell]]} :
       /\ e_attempts' = Append(e_attempts, <<e_rows[e_row][e_cell], CellsModes[e_mode]>>)
       /\ e_cell_texts_tried' =
              e_cell_texts_tried \o CellTextsTried(<<answers[e_mode]>>, 1)
       /\ e_mode' = ModeAfter(answers, e_mode)
    /\ UNCHANGED <<e_pc, e_image, e_table_cells, e_rows, e_row, e_cell, e_kept,
                   e_row_texts, e_cell_texts, e_text, first_vars, s_vars, final_vars>>

\* lines 583-589: the longest text is kept, if it is not empty
CellKeep ==
    /\ e_pc = "modes"
    /\ e_mode > Len(CellsModes)
    /\ \E text \in {KeptText(e_cell_texts_tried)} :
       /\ e_kept' = Append(e_kept, <<e_row, e_rows[e_row][e_cell], text>>)
       /\ e_row_texts' = IF text # <<>> THEN Append(e_row_texts, text) ELSE e_row_texts
    /\ e_cell' = e_cell + 1
    /\ e_pc' = "next"
    /\ UNCHANGED <<e_image, e_table_cells, e_rows, e_row, e_mode, e_attempts,
                   e_cell_texts_tried, e_cell_texts, e_text, first_vars, s_vars, final_vars>>

\* lines 591-593: the row is formatted, if it holds a text
RowFormat ==
    /\ e_pc = "next"
    /\ e_row <= Len(e_rows)
    /\ e_cell > Len(e_rows[e_row])
    /\ e_cell_texts' = IF e_row_texts # <<>> THEN Append(e_cell_texts, PipeRow(e_row_texts))
                       ELSE e_cell_texts
    /\ e_row_texts' = <<>>
    /\ e_row' = e_row + 1
    /\ e_cell' = 1
    /\ UNCHANGED <<e_pc, e_image, e_table_cells, e_rows, e_mode, e_attempts,
                   e_cell_texts_tried, e_kept, e_text, first_vars, s_vars, final_vars>>

\* line 595
CellsReturn ==
    /\ e_pc = "next"
    /\ e_row > Len(e_rows)
    /\ e_text' = JoinLines(e_cell_texts)
    /\ e_pc' = "done"
    /\ UNCHANGED <<e_image, e_table_cells, e_rows, e_row, e_cell, e_mode, e_attempts,
                   e_cell_texts_tried, e_kept, e_row_texts, e_cell_texts, first_vars,
                   s_vars, final_vars>>

CellsNext ==
    CellsBegin \/ CellSkip \/ CellPrepare \/ CellTryMode \/ CellKeep \/ RowFormat
        \/ CellsReturn

SpecCells == CellsInit /\ [][CellsNext]_vars

(***************************************************************************)
(* One call of either recognition engine: extract_table_cells or           *)
(* extract_with_multiple_psm_modes.                                        *)
(***************************************************************************)
EnginesInit == CellsInit \/ PageInit

EnginesNext == CellsNext \/ PageNext

SpecEngines == EnginesInit /\ [][EnginesNext]_vars

(***************************************************************************)
(* One call of convert_with_retry.                                         *)
(***************************************************************************)
RetryInit ==
    /\ r_pc = "try"
    /\ r_max_retries \in 1..MaxRetries
    /\ r_retry_delay \in DelayPool
    /\ r_first_delay = r_retry_delay
    /\ r_attempt = 0
    /\ r_outcomes = <<>>
    /\ r_sleeps = <<>>
    /\ r_result = NoneValue
    /\ BeforeFinalAtRest
    /\ RmdAtRest
    /\ PdfAtRest

\* lines 33-50: one attempt; parser.convert_pdf returns the pages or raises
RetryAttempt ==
    /\ r_pc = "try"
    /\ r_attempt < r_max_retries
    /\ \E outcome \in {Pages} \cup MessagePool :
       /\ r_outcomes' = Append(r_outcomes, outcome)
       /\ IF outcome = Pages
          THEN /\ r_pc' = "returned"
               /\ r_result' = Pages
          ELSE IF IsConnectionError(outcome)
          THEN IF r_attempt < r_max_retries - 1
               THEN /\ r_pc' = "sleep"
                    /\ r_result' = r_result
               ELSE /\ r_pc' = "raised"
                    /\ r_result' = ConnectionFailed(r_max_retries, outcome)
          ELSE /\ r_pc' = "raised"
               /\ r_result' = outcome
    /\ UNCHANGED <<r_max_retries, r_retry_delay, r_first_delay, r_attempt, r_sleeps,
                   before_final_vars, k_vars, m_vars>>

\* lines 44-46: the wait before the next attempt, doubled for the one after
RetrySleep ==
    /\ r_pc = "sleep"
    /\ r_sleeps' = Append(r_sleeps, r_retry_delay)
    /\ r_retry_delay' = NextDelay(r_retry_delay)
    /\ r_attempt' = r_attempt + 1
    /\ r_pc' = "try"
    /\ UNCHANGED <<r_max_retries, r_first_delay, r_outcomes, r_result, before_final_vars,
                   k_vars, m_vars>>

RetryNext == RetryAttempt \/ RetrySleep

SpecRetry == RetryInit /\ [][RetryNext]_vars

(***************************************************************************)
(* One conversion of convert_r_to_rmd.                                     *)
(***************************************************************************)
RmdInit ==
    /\ k_pc = "lines"
    /\ k_lines \in RFiles
    /\ k_locals = RmdStart
    /\ k_written = <<>>
    /\ BeforeFinalAtRest
    /\ RetryAtRest
    /\ PdfAtRest

\* lines 135-205: the next line of the file
RmdLine ==
    /\ k_pc = "lines"
    /\ k_locals.line_number < Len(k_lines)
    /\ k_locals' = ProcessLine(k_locals, k_lines[k_locals.line_number + 1])
    /\ UNCHANGED <<k_pc, k_lines, k_written, before_final_vars, r_vars, m_vars>>

\* lines 207-244: the end of the file
RmdWrite ==
    /\ k_pc = "lines"
    /\ k_locals.line_number = Len(k_lines)
    /\ k_written' = Finished(k_locals)
    /\ k_pc' = "written"
    /\ UNCHANGED <<k_lines, k_locals, before_final_vars, r_vars, m_vars>>

RmdNext == RmdLine \/ RmdWrite

SpecRmd == RmdInit /\ [][RmdNext]_vars

(***************************************************************************)
(* One PDF file of pdf_md.py.                                              *)
(***************************************************************************)
PdfInit ==
    /\ m_pc = "pdfplumber"
    /\ m_pdf \in PdfPool
    /\ m_text = <<>>
    /\ m_tried = <<>>
    /\ m_written = NoFile
    /\ BeforeFinalAtRest
    /\ RetryAtRest
    /\ RmdAtRest

\* lines 43-59: pdfplumber, then OCR when the text is blank
PdfPlumber ==
    /\ m_pc = "pdfplumber"
    /\ m_text' = PlumberPages(<<>>, m_pdf.plumber).text
    /\ m_tried' = Append(m_tried, "pdfplumber")
    /\ m_pc' = IF Strip(m_text') = <<>> THEN "ocr" ELSE "write"
    /\ UNCHANGED <<m_pdf, m_written, before_final_vars, r_vars, k_vars>>

\* lines 60-278: OCR, then pdfminer when it raised
PdfOcr ==
    /\ m_pc = "ocr"
    /\ \E read \in {OcrPages(m_text, m_pdf.ocr)} :
       /\ m_text' = IF read.raised THEN read.text ELSE OcrFixes(read.text)
       /\ m_pc' = IF read.raised THEN "pdfminer" ELSE "write"
    /\ m_tried' = Append(m_tried, "OCR")
    /\ UNCHANGED <<m_pdf, m_written, before_final_vars, r_vars, k_vars>>

\* lines 280-287: pdfminer, then pypdf when it raised
PdfMiner ==
    /\ m_pc = "pdfminer"
    /\ m_text' = IF m_pdf.miner = OcrRaise THEN m_text ELSE m_pdf.miner
    /\ m_pc' = IF m_pdf.miner = OcrRaise THEN "pypdf" ELSE "write"
    /\ m_tried' = Append(m_tried, "pdfminer")
    /\ UNCHANGED <<m_pdf, m_written, before_final_vars, r_vars, k_vars>>

\* lines 289-300: pypdf, then the error text when it raised
PdfPypdf ==
    /\ m_pc = "pypdf"
    /\ \E read \in {PypdfPages(m_text, m_pdf.pypdf)} :
       m_text' = IF read.raised THEN CouldNotExtract(m_pdf.filename) ELSE read.text
    /\ m_pc' = "write"
    /\ m_tried' = Append(m_tried, "pypdf")
    /\ UNCHANGED <<m_pdf, m_written, before_final_vars, r_vars, k_vars>>

\* lines 302-309: the markdown file
PdfWrite ==
    /\ m_pc = "write"
    /\ m_written' = IF m_pdf.writable THEN m_text ELSE m_written
    /\ m_pc' = IF m_pdf.writable THEN "written" ELSE "not written"
    /\ UNCHANGED <<m_pdf, m_text, m_tried, before_final_vars, r_vars, k_vars>>

PdfNext == PdfPlumber \/ PdfOcr \/ PdfMiner \/ PdfPypdf \/ PdfWrite

SpecPdf == PdfInit /\ [][PdfNext]_vars

(***************************************************************************)
(* Properties of main and of convert_image_to_structured_text, checked     *)
(* under Spec.  conv is the conversion of the image at the last position   *)
(* of passed.                                                              *)
(***************************************************************************)
LastIndex == image_files[passed[Len(passed)]]

LastImage == ImagePool[LastIndex]

\* conv holds what convert_image_to_structured_text returned for LastImage
HasReturned == passed # <<>> /\ ~conv.exc

\* C1: a failure while converting one image never stops the batch loop: the
\* image files are passed to convert_image_to_structured_text once each, in
\* list order, and all of them have been passed when the loop is over.
C1_EveryImagePassedOnce ==
    /\ pc # "raised"
    /\ passed = [k \in 1..Len(passed) |-> k]
    /\ Len(passed) <= Len(image_files)
    /\ (pc = "done" => Len(passed) = Len(image_files))

\* the loop is over, its first image had failed and a second one was converted
C1_FailureThenNext ==
    /\ pc = "done"
    /\ Len(passed) = 2
    /\ Converted[image_files[1]].ret = NoneValue
    /\ conv.ret # NoneValue

\* the whole-page text of each image of the pool after the cleaning that
\* regroups no line (is_table=True)
PlainClean ==
    [k \in 1..Len(ImagePool) |-> clean_structured_text(Converted[k].regular_text, TRUE)]

\* C2: when table-cell extraction produced no text, the final text is the
\* whole-page text normalized without the table-regrouping heuristic: no line
\* of it is rewritten into a pipe-delimited row.
C2_PageTextNotRegrouped ==
    (HasReturned /\ conv.ret # NoneValue /\ Strip(conv.table_text) = <<>>)
        => conv.ret = PlainClean[LastIndex]

\* the lines of the whole-page text that resemble no line of the table text
\* (similarity below 0.5)
C3_KeptLines(table_text, page_text) ==
    SelectSeq(StrippedLines(page_text),
              LAMBDA line : \A k \in 1..Len(StrippedLines(table_text)) :
                  ~are_texts_similar(line, StrippedLines(table_text)[k], <<1, 2>>))

\* whether whole-page text is added to the table text of image k
C3_Adds ==
    [k \in 1..Len(ImagePool) |->
        /\ Converted[k].regular_text # <<>>
        /\ ~are_texts_similar(Converted[k].table_text, Converted[k].regular_text, <<3, 10>>)
        /\ C3_KeptLines(Converted[k].table_text, Converted[k].regular_text) # <<>>]

\* the text of image k before it is cleaned, its table text being non-empty
C3_Merged ==
    [k \in 1..Len(ImagePool) |->
        IF C3_Adds[k]
        THEN Join(<<"\n">>, C3_KeptLines(Converted[k].table_text, Converted[k].regular_text))
                 \o <<"\n", "\n">> \o Converted[k].table_text
        ELSE Converted[k].table_text]

\* C3, in the order the code uses: non-empty table text is the primary
\* content; whole-page text is added only if are_texts_similar(table_text, page_text, 0.3) is false,
\* and then its lines that resemble no table line are put before the table
\* text, a blank line between them.
C3_PageLinesBeforeTable ==
    (HasReturned /\ conv.ret # NoneValue /\ Strip(conv.table_text) # <<>>)
        => conv.text = C3_Merged[LastIndex]

\* a conversion in which lines of the whole-page text were added to the table
C3_LinesAdded ==
    /\ HasReturned
    /\ Strip(conv.table_text) # <<>>
    /\ conv.text # conv.table_text

\* C3, in the order the specification states: whole-page text is added only if it is not similar to the
\* table text at 0.3, and when it is added it comes after the table text.
C3_PageTextAfterTable ==
    (HasReturned /\ conv.ret # NoneValue /\ Strip(conv.table_text) # <<>>
       /\ conv.text # conv.table_text)
        => /\ ~are_texts_similar(conv.table_text, conv.regular_text, <<3, 10>>)
           /\ Len(conv.text) > Len(conv.table_text)
           /\ SubSeq(conv.text, 1, Len(conv.table_text)) = conv.table_text

\* the texts returned for the image files, in list order, without the empty
\* and the missing ones
C4_Texts ==
    SelectSeq([k \in 1..Len(image_files) |-> Converted[image_files[k]].ret],
              LAMBDA t : t # <<>> /\ t # NoneValue)

\* C4, for the runs that extract text: at the end of a run in which some
\* conversion returned non-empty text the output file holds exactly those texts, in processing
\* order, joined by a double newline; in a run without any the file is not
\* written and keeps what it held before.
C4_FileHoldsTexts ==
    pc = "done" =>
        combined_file = IF C4_Texts # <<>> THEN Join(<<"\n", "\n">>, C4_Texts)
                        ELSE file_before

\* a run that wrote the texts of two images
C4_TwoTextsWritten ==
    /\ pc = "done"
    /\ Len(C4_Texts) = 2
    /\ combined_file # file_before

\* C4, for every run: at the end of a run the output file holds exactly the texts
\* of the images whose conversion returned non-empty text (an absent file
\* counted as holding nothing).
C4_FileHoldsExactlyTexts ==
    pc = "done" =>
        (IF combined_file = NoFile THEN <<>> ELSE combined_file)
            = Join(<<"\n", "\n">>, C4_Texts)

\* no text: an exception, or an answer without a character to keep
C5_NoText(answer) == answer = OcrRaise \/ Strip(answer) = <<>>

\* the image fails every stage: it cannot be read, or no cell and no page
\* recognition yields text
C5_FailsEveryStage(image) ==
    \/ image.open = "raise"
    \/ image.detect = "raise"
    \/ /\ \A c \in DOMAIN image.cell_ocr : \A m \in 1..4 : C5_NoText(image.cell_ocr[c][m])
       /\ \A m \in 1..4 : C5_NoText(image.page_ocr[m])

\* C5: convert_image_to_structured_text returns without raising, and for an
\* image that fails every stage, an unreadable file included, it returns the
\* empty string.
C5_EmptyStringOnFailure ==
    passed # <<>> =>
        /\ ~conv.exc
        /\ (C5_FailsEveryStage(LastImage) => conv.ret = <<>>)

\* the cleaned whole-image OCR result of each image of the pool
C6_PageOnly ==
    [k \in 1..Len(ImagePool) |->
        clean_structured_text(extract_with_multiple_psm_modes(ImagePool[k]), FALSE)]

\* C6: with fewer than 2 detected cells no cell is OCRed and the final text
\* is clean_structured_text of the result of extract_with_multiple_psm_modes.
C6_FewCellsPageOnly ==
    (HasReturned /\ LastImage.open = "ok" /\ LastImage.detect = "ok"
       /\ Len(LastImage.cells) < 2)
        => /\ conv.ocred = <<>>
           /\ conv.ret = C6_PageOnly[LastIndex]

\* an image with a single detected cell was converted to its page text
C6_OneCellConverted ==
    /\ HasReturned
    /\ LastImage.detect = "ok"
    /\ Len(LastImage.cells) = 1
    /\ conv.ret # <<>>
    /\ conv.ret # NoneValue

\* the images whose six cells form a 3-row by 2-column grid recognized as
\* a, 1, b, 2, c, 3 in row-major order
C7_Grids == {Grid3x2, GridDense, GridReversed}

\* C7: six cells forming a 3 x 2 grid recognized as a, 1, b, 2, c, 3 give the
\* table text '| a | 1 |', '| b | 2 |', '| c | 3 |', joined by newlines.
C7_GridGivesThreeRows ==
    (HasReturned /\ LastImage \in C7_Grids)
        => conv.table_text = Chars("| a | 1 |\n| b | 2 |\n| c | 3 |")

(***************************************************************************)
(* Properties of group_cells_into_rows, checked under SpecGroup.           *)
(***************************************************************************)
\* the sum of the heights of the cells of the call
C8_Heights == SumSeq([k \in 1..Len(g_table_cells) |-> CellH(g_table_cells[k])])

\* |center - mean of the centres of row| <= max(0.5 x mean cell height, 15),
\* both sides multiplied by 2 x Len(g_table_cells) x Len(row)
C8_Within(center, row) ==
    2 * Len(g_table_cells)
          * Abs(center * Len(row) - SumSeq([k \in 1..Len(row) |-> CenterY(row[k])]))
        <= Max2(C8_Heights, 30 * Len(g_table_cells)) * Len(row)

\* the cells are scanned in ascending (y, x) order
C8_Ascending ==
    \A i, j \in 1..Len(g_sorted_cells) :
        i < j => \/ CellY(g_sorted_cells[i]) < CellY(g_sorted_cells[j])
                 \/ /\ CellY(g_sorted_cells[i]) = CellY(g_sorted_cells[j])
                    /\ CellX(g_sorted_cells[i]) <= CellX(g_sorted_cells[j])

\* what an iteration of the loop does with the cell it takes
C8_Step ==
    (g_pc = "loop" /\ g_next' = g_next + 1) =>
        /\ C8_Ascending
        /\ IF g_loop.current_row = <<>>
              \/ C8_Within(CenterY(g_sorted_cells[g_next]), g_loop.current_row)
           THEN /\ g_loop'.current_row = Append(g_loop.current_row, g_sorted_cells[g_next])
                /\ g_loop'.rows = g_loop.rows
           ELSE /\ g_loop'.current_row = <<g_sorted_cells[g_next]>>
                /\ Len(g_loop'.rows) = Len(g_loop.rows) + 1

\* C8: with tolerance = max(0.5 x mean cell height, 15), scanning the cells in
\* ascending (y, x) order, a cell is put into the current row if and only if
\* its vertical centre y + h div 2 is within the tolerance of the mean of the
\* centres of the cells already in that row; otherwise it starts a new row.
C8_JoinsRowIffWithinTolerance == [][C8_Step]_vars

\* a cell has started a second row and another cell has joined it
C8_SecondRowJoined ==
    /\ g_pc = "loop"
    /\ g_loop.rows # <<>>
    /\ Len(g_loop.current_row) >= 2

\* the cells of row are in non-decreasing x order
C9_XOrdered(row) ==
    \A i \in 1..(Len(row) - 1) : CellX(row[i]) <= CellX(row[i + 1])

\* C9: in every row returned by group_cells_into_rows the cells are in
\* non-decreasing x order, for every input list of cells.
C9_RowsInColumnOrder ==
    /\ \A k \in 1..Len(g_loop.rows) : C9_XOrdered(g_loop.rows[k])
    /\ \A k \in 1..Len(g_rows) : C9_XOrdered(g_rows[k])

\* a returned row holds a cell to the left of one that was scanned before it
C9_RowWasReordered ==
    /\ g_pc = "done"
    /\ \E k \in 1..Len(g_rows) : \E i \in 1..(Len(g_rows[k]) - 1) :
           /\ CellX(g_rows[k][i]) < CellX(g_rows[k][i + 1])
           /\ LessYX(g_rows[k][i + 1], g_rows[k][i])

(***************************************************************************)
(* Properties of extract_with_multiple_psm_modes, checked under SpecPage.  *)
(***************************************************************************)
\* C10: after the de-duplication step no two surviving candidates are similar
\* to each other (of every similar pair only the longer candidate survives),
\* for up to four candidates in any order.
C10_NoSimilarSurvivors ==
    (p_pc = "dedup" /\ p_next > Len(p_results)) =>
        \A i, j \in 1..Len(p_unique_results) :
            i # j => ~are_texts_similar(p_unique_results[i].text,
                                        p_unique_results[j].text, <<7, 10>>)

\* the modes tried so far whose answer was kept as a candidate
C11_KeptModes == {p_results[i].psm : i \in 1..Len(p_results)}

\* the modes tried so far whose answer is a text of at least n characters
\* once stripped
C11_ModesOfLength(n) ==
    {psm_modes[k] : k \in {j \in 1..(p_mode - 1) :
        p_page_ocr[j] # OcrRaise /\ Len(Strip(p_page_ocr[j])) >= n}}

\* C11, with the limit the code uses: a whole-page recognition result is
\* discarded exactly when its stripped length is at most 10 characters; a
\* result of 11 or more characters is kept as a candidate.
C11_KeptIffLongerThanTen ==
    p_pc = "modes" => C11_KeptModes = C11_ModesOfLength(11)

\* a result of 10 characters and a result of 11 characters have been tried
C11_TenAndElevenTried ==
    /\ p_pc = "modes"
    /\ \E j, k \in 1..(p_mode - 1) :
           /\ p_page_ocr[j] # OcrRaise /\ Len(Strip(p_page_ocr[j])) = 10
           /\ p_page_ocr[k] # OcrRaise /\ Len(Strip(p_page_ocr[k])) = 11

\* C11, with the limit the specification states: a result is discarded
\* exactly when its stripped length is shorter than 10 characters; a result
\* of 10 or more characters is kept as a candidate.
C11_KeptIffTenOrLonger ==
    p_pc = "modes" => C11_KeptModes = C11_ModesOfLength(10)

(***************************************************************************)
(* Properties of fix_common_ocr_errors, checked under SpecFix.             *)
(***************************************************************************)
\* C12: the fixed-rule substitution pass is idempotent:
\* fix_common_ocr_errors(fix_common_ocr_errors(t)) = fix_common_ocr_errors(t).
C12_FixIsIdempotent == f_pc = "twice" => f_twice = f_once

\* the first pass rewrote "ll" into "l1" and then "l1" into "1", and the
\* second pass has been made
C12_ChainedRulesApplied ==
    /\ f_pc = "twice"
    /\ f_text = <<"l", "l">>
    /\ f_once = <<"1">>

(***************************************************************************)
(* Properties of detect_table_structure, checked under SpecDetect.         *)
(***************************************************************************)
\* C13: the cells returned are the text regions of the borderless detector
\* only if line detection found fewer than 2 cells and the regions passed
\* every tabularity check; in every other case they are exactly the
\* line-detected cells (rescaled).
C13_RegionsOnlyAfterChecks ==
    /\ d_promoted => Len(LineCells(d_image)) < 2
    /\ d_pc = "done" =>
           d_returned = ScaleBack(d_image, IF d_promoted THEN d_text_regions
                                           ELSE LineCells(d_image))

\* the text regions were returned in place of the one line-detected cell
C13_RegionsReplacedOneCell ==
    /\ d_pc = "done"
    /\ d_promoted
    /\ Len(LineCells(d_image)) = 1
    /\ Len(d_returned) >= 4

\* the x positions of the cells of row k of d_rows, from the left
C14_RowX(k) ==
    LET row == StableSort("x", d_rows[k]) IN [i \in 1..Len(row) |-> CellX(row[i])]

\* the x positions of row k are within 15% of the image width of those of
\* the first row
C14_RowIsAligned(k) ==
    \A i \in 1..Min2(Len(d_rows[k]), Len(d_rows[1])) :
        20 * Abs(C14_RowX(k)[i] - C14_RowX(1)[i]) <= 3 * ScaledWidth(d_image)

\* the column count of row k is within 1 of the mean column count
C14_RowIsTypical(k) ==
    Abs(Len(d_rows[k]) * Len(d_rows) - Len(d_text_regions)) <= Len(d_rows)

\* C14: text regions are promoted to candidate cells only if, grouped into
\* rows by y, they form at least 2 rows, at least 70% of the rows have a
\* column count within 1 of the mean column count, and at least 60% of the
\* rows have the x positions of their cells within 15% of the image width of
\* those of the first row.
C14_PromotedOnlyIfTabular ==
    d_promoted =>
        /\ Len(d_rows) >= 2
        /\ 10 * Cardinality({k \in 1..Len(d_rows) : C14_RowIsTypical(k)})
               >= 7 * Len(d_rows)
        /\ 10 * Cardinality({k \in 1..Len(d_rows) : C14_RowIsAligned(k)})
               >= 6 * Len(d_rows)

\* regions were promoted although one of their rows is not aligned
C14_PromotedWithShiftedRow ==
    /\ d_promoted
    /\ \E k \in 1..Len(d_rows) : ~C14_RowIsAligned(k)

\* C15: 12 text regions laid out as a borderless grid of 4 rows by 3 columns
\* with aligned x positions, each passing the size filter, are accepted by
\* the tabularity validation, and group_cells_into_rows on the returned
\* cells yields exactly 4 rows of 3 cells each.
C15_GridGivesFourRowsOfThree ==
    (d_pc = "done" /\ d_image.contours = <<>> /\ d_image.stats \in {RoomyGrid, DenseGrid})
        => /\ d_promoted
           /\ Len(d_text_regions) = 12
           /\ Len(group_cells_into_rows(d_returned)) = 4
           /\ \A k \in 1..4 : Len(group_cells_into_rows(d_returned)[k]) = 3


(***************************************************************************)
(* C16: when main writes all_extracted_structured_text.txt.                *)
(***************************************************************************)
\* C16, as the code behaves: the file is written only once every image has
\* been handled, never twice, and a run that handled its images wrote it once
\* when some image yielded text and not at all when none did
C16_WrittenOnceIffText ==
    /\ writes \in {0, 1}
    /\ writes = 1 => pc = "done" /\ done = Len(image_files)
    /\ pc = "done" => writes = (IF all_text_parts # <<>> THEN 1 ELSE 0)

\* a run over two images of which only one yielded text has written the file
C16_WroteAfterMixedRun ==
    /\ pc = "done"
    /\ Len(passed) = 2
    /\ Len(all_text_parts) = 1
    /\ writes = 1

\* C16, as stated: every run that has handled at least one image, and all of
\* them, has written the file exactly once, also when none yielded text
C16_WrittenOnceWhenDone ==
    (pc = "done" /\ Len(passed) >= 1) => writes = 1


(***************************************************************************)
(* C17: combine_files.py given the names of input files only.              *)
(***************************************************************************)
\* every argument names a file of input/ that is not hidden: the command line
\* holds input file names and nothing else
C17_OnlyInputNames ==
    /\ Len(c_args) >= 2
    /\ \A i \in 1..Len(c_args) :
           /\ FullPath(c_args[i]) \in c_folder
           /\ ~StartsWith(PathName(c_args[i]), Chars("."))
    /\ c_libs.HAS_PIL
    /\ c_libs.HAS_PDF

\* C17: given two or more names of input files and no output name, the run
\* takes every named file as an input and writes combined.<extension of the
\* first input>
C17_AllNamedFilesCombined ==
    (c_pc = "done" /\ C17_OnlyInputNames) =>
        /\ c_full_input_paths = [i \in 1..Len(c_args) |-> FullPath(c_args[i])]
        /\ c_written = Chars("output/combined") \o Lower(PathSuffix(c_args[1]))


(***************************************************************************)
(* C18: group_cells_into_rows keeps every cell.                            *)
(***************************************************************************)
\* how many times cell occurs in the list cells
C18_TimesIn(cell, cells) == Cardinality({i \in 1..Len(cells) : cells[i] = cell})

\* how many times cell occurs in the rows
C18_TimesInRows(cell, rows) ==
    Cardinality(UNION {{<<r, i>> : i \in {k \in 1..Len(rows[r]) : rows[r][k] = cell}} :
                       r \in 1..Len(rows)})

\* C18: for a non-empty list of cells no returned row is empty and every
\* cell occurs in the rows as many times as in the input: the rows,
\* concatenated, are a permutation of the input
C18_RowsArePermutation ==
    (g_pc = "done" /\ g_table_cells # <<>>) =>
        /\ \A r \in 1..Len(g_rows) : g_rows[r] # <<>>
        /\ \A cell \in CellPool :
               C18_TimesInRows(cell, g_rows) = C18_TimesIn(cell, g_table_cells)

\* three cells, one of them given twice, returned in two rows
C18_RepeatedCellInTwoRows ==
    /\ g_pc = "done"
    /\ Len(g_table_cells) = 3
    /\ \E cell \in CellPool : C18_TimesIn(cell, g_table_cells) = 2
    /\ Len(g_rows) = 2


(***************************************************************************)
(* C19 and C20: detect_and_group_table_lines, for the lists of lines that  *)
(* hold at least 4 tokens (the others are returned as they are given).     *)
(***************************************************************************)
C19_IsPipeRow(line) == line # <<>> /\ line[1] = "|"

\* the places <<r, k>> of the returned lines at which text stands inside a
\* pipe-delimited row
C19_PlacesInRows(text) ==
    {p \in (1..Len(l_result)) \X (1..(3 + 5 * MaxLines)) :
        /\ C19_IsPipeRow(l_result[p[1]])
        /\ p[2] + Len(text) - 1 <= Len(l_result[p[1]])
        /\ SubSeq(l_result[p[1]], p[2], p[2] + Len(text) - 1) = text}

\* the places <<r, 1>> at which a line is returned as a line by itself
C19_PlacesAsLine(line) ==
    {p \in (1..Len(l_result)) \X {1} : l_result[p[1]] = line}

\* where line i of the input is found in the output: a token inside the rows
\* or, still a line by itself, outside them; another line by itself
C19_Places(i) ==
    IF i \in l_table_cell_indices
    THEN C19_PlacesInRows(Strip(l_lines[i])) \cup C19_PlacesAsLine(l_lines[i])
    ELSE C19_PlacesAsLine(l_lines[i])

C19_Before(p, q) == p[1] < q[1] \/ (p[1] = q[1] /\ p[2] < q[2])

\* C19: every token line is exactly once in the output, inside a pipe-delimited
\* row, every other non-blank line is exactly once in it, and all of them
\* follow one another as in the input
C19_ContentPreserved ==
    (l_pc = "done" /\ Len(l_table_cells) >= MinTableTokens) =>
        /\ \A i \in 1..Len(l_lines) :
               Strip(l_lines[i]) # <<>> => Cardinality(C19_Places(i)) = 1
        /\ \A i \in l_table_cell_indices : C19_PlacesAsLine(l_lines[i]) = {}
        /\ \A i, j \in 1..Len(l_lines) :
               (i < j /\ Strip(l_lines[i]) # <<>> /\ Strip(l_lines[j]) # <<>>) =>
                   \A p \in C19_Places(i), q \in C19_Places(j) : C19_Before(p, q)

\* C20: 3 columns for every count of tokens that is a multiple of 3, and 2 or
\* 4 columns only for a count they divide with a smaller remainder than 3
C20_ThreeColumnsPreferred ==
    (l_pc \in {"replace", "done"} /\ Len(l_table_cells) >= MinTableTokens) =>
        /\ Len(l_table_cells) % 3 = 0 => l_best_column_count = 3
        /\ l_best_column_count # 3 =>
               Len(l_table_cells) % l_best_column_count < Len(l_table_cells) % 3


(***************************************************************************)
(* C21: what extract_with_multiple_psm_modes returns, against its          *)
(* candidates before the de-duplication.                                   *)
(***************************************************************************)
\* C21: the returned text is the first candidate of maximal length among all
\* the candidates kept, in the order of the modes; the empty text is returned
\* when there is none
C21_FirstLongestReturned ==
    p_pc = "done" =>
        IF p_results = <<>> THEN p_text = <<>>
        ELSE \E i \in 1..Len(p_results) :
                 /\ p_text = p_results[i].text
                 /\ \A j \in 1..Len(p_results) : p_results[j].length <= p_results[i].length
                 /\ \A j \in 1..(i - 1) : p_results[j].length < p_results[i].length

\* a text has been returned after the de-duplication replaced a candidate by
\* a longer similar one and dropped another
C21_ReturnedAfterReplacement ==
    /\ p_pc = "done"
    /\ Len(p_results) >= 3
    /\ Len(p_unique_results) < Len(p_results)
    /\ p_unique_results[Len(p_unique_results)] # p_results[Len(p_results)]
    /\ p_unique_results[1] # p_results[1]


(***************************************************************************)
(* C22: when are_texts_similar answers True.                               *)
(***************************************************************************)
\* `a in b` of two texts
C22_ContainedIn(a, b) ==
    \E k \in 0..(Len(b) - Len(a)) : SubSeq(b, k + 1, k + Len(a)) = a

\* the shorter of the normalized texts is contained in the longer one and
\* their length ratio is at least the threshold
C22_Containment ==
    LET norm1 == normalize(s_text1)
        norm2 == normalize(s_text2)
        shorter == IF Len(norm1) < Len(norm2) THEN norm1 ELSE norm2
        longer == IF Len(norm1) < Len(norm2) THEN norm2 ELSE norm1
    IN  /\ shorter # <<>>
        /\ C22_ContainedIn(shorter, longer)
        /\ Len(shorter) * s_threshold[2] >= s_threshold[1] * Len(longer)

\* the Jaccard index of the word sets of the normalized texts is at least the
\* threshold
C22_WordOverlap ==
    LET words1 == Range(Words(normalize(s_text1)))
        words2 == Range(Words(normalize(s_text2)))
    IN  /\ words1 \cup words2 # {}
        /\ Cardinality(words1 \cap words2) * s_threshold[2]
               >= s_threshold[1] * Cardinality(words1 \cup words2)

\* C22: the answer is True only if the containment check or the word overlap
\* check passes; two non-empty texts with no common word, neither containing
\* the other, are not similar
C22_SimilarOnlyIfContainedOrOverlapping ==
    (s_pc = "done" /\ s_similar) => (C22_Containment \/ C22_WordOverlap)


(***************************************************************************)
(* Properties of extract_table_cells, checked under SpecCells, and of the  *)
(* two engines, checked under SpecEngines.                                 *)
(***************************************************************************)
\* the modes in which the engine read a text in the cell
C23_ModesRead(cell) ==
    {k \in 1..Len(CellsModes) :
        /\ e_image.cell_ocr[cell][k] # OcrRaise
        /\ Strip(e_image.cell_ocr[cell][k]) # <<>>}

\* the result of mode k for the cell, once corrected
C23_Corrected(cell, k) == fix_common_ocr_errors(Strip(e_image.cell_ocr[cell][k]))

\* C23: the text kept for a cell is the longest of the corrected results of
\* the modes 7, 8, 6, 11, the result of the earlier mode among those of the
\* same length; nothing is kept when no mode read a text
C23_LongestCorrectedKept ==
    (e_pc \in {"next", "done"} /\ e_kept # <<>>) =>
        LET cell == e_kept[Len(e_kept)][2]
            text == e_kept[Len(e_kept)][3]
        IN  IF C23_ModesRead(cell) = {} THEN text = <<>>
            ELSE \E k \in C23_ModesRead(cell) :
                     /\ text = C23_Corrected(cell, k)
                     /\ \A j \in C23_ModesRead(cell) :
                            /\ Len(C23_Corrected(cell, j)) <= Len(text)
                            /\ j < k => Len(C23_Corrected(cell, j)) < Len(text)

\* a text was kept for a cell whose longest result, before the correction, is
\* not the longest after it
C23_KeptShorterRawText ==
    /\ e_pc = "next"
    /\ e_kept # <<>>
    /\ e_image.cell_ocr[e_kept[Len(e_kept)][2]][1] = Chars("©©©7")
    /\ e_kept[Len(e_kept)][3] = Chars("b12")

\* the texts kept for the cells of row r, in the order they were kept
C24_TextsOfRow(r) ==
    LET kept == SelectSeq(e_kept, LAMBDA k : k[1] = r /\ k[3] # <<>>)
    IN  [i \in 1..Len(kept) |-> kept[i][3]]

\* the rows that hold a cell with a non-empty text
C24_RowsWithText ==
    SelectSeq([r \in 1..Len(e_rows) |-> r], LAMBDA r : C24_TextsOfRow(r) # <<>>)

\* the number of fields between the bars of a line
C24_Fields(line) == Cardinality({i \in 1..Len(line) : line[i] = "|"}) - 1

\* the lines of the returned text
C24_Lines == IF e_text = <<>> THEN <<>> ELSE SplitLines(e_text)

\* C24: the returned text has one line for every row that holds a cell with a
\* non-empty text and none for the other rows; the line has as many fields as
\* the row has such cells; the cells were taken from left to right
C24_OneFieldPerNonEmptyCell ==
    e_pc = "done" =>
        /\ Len(C24_Lines) = Len(C24_RowsWithText)
        /\ \A n \in 1..Len(C24_Lines) :
               n <= Len(C24_RowsWithText) =>
                   C24_Fields(C24_Lines[n]) = Len(C24_TextsOfRow(C24_RowsWithText[n]))
        /\ \A i, j \in 1..Len(e_kept) :
               (i < j /\ e_kept[i][1] = e_kept[j][1]) =>
                   CellX(e_kept[i][2]) <= CellX(e_kept[j][2])

\* C25: in both engines the four modes are all tried, in their order, whatever
\* the earlier ones answered or raised: every cell read was tried in the modes
\* 7, 8, 6, 11, and the whole page in the modes 6, 11, 4, 3 before the
\* candidates are compared
C25_AllModesTried ==
    /\ \A i \in 1..Len(e_kept) :
           SubSeq(e_attempts, 4 * i - 3, 4 * i)
               = [k \in 1..4 |-> <<e_kept[i][2], CellsModes[k]>>]
    /\ Len(e_attempts) = 4 * Len(e_kept) + (IF e_pc = "modes" THEN e_mode - 1 ELSE 0)
    /\ e_pc = "modes" =>
           \A k \in 1..(e_mode - 1) :
               e_attempts[4 * Len(e_kept) + k] = <<e_rows[e_row][e_cell], CellsModes[k]>>
    /\ p_pc \in {"dedup", "done"} => p_mode = Len(psm_modes) + 1
    /\ \A i, j \in 1..Len(p_results) :
           i < j => \E k, m \in 1..(p_mode - 1) :
                        /\ k < m
                        /\ psm_modes[k] = p_results[i].psm
                        /\ psm_modes[m] = p_results[j].psm

\* a text was kept for a cell in which the first three modes raised
C25_KeptAfterThreeExceptions ==
    /\ e_pc = "next"
    /\ e_kept # <<>>
    /\ e_image.cell_ocr[e_kept[Len(e_kept)][2]] = <<OcrRaise, OcrRaise, OcrRaise, Chars("ok")>>
    /\ e_kept[Len(e_kept)][3] = Chars("ok")


(***************************************************************************)
(* C26 and C27: the cells detect_table_structure returns.                  *)
(***************************************************************************)
\* C26: when the text regions were promoted to cells, their validation having
\* found at least 2 rows, group_cells_into_rows finds at least 2 rows in the
\* cells returned
C26_PromotedCellsGiveTwoRows ==
    (d_pc = "done" /\ d_promoted) =>
        /\ Len(d_rows) >= 2
        /\ Len(group_cells_into_rows(d_returned)) >= 2

\* C27: every cell returned lies inside the original image, whether the
\* image was enlarged or not
C27_CellsInsideOriginalImage ==
    d_pc = "done" =>
        \A i \in 1..Len(d_returned) :
            /\ CellX(d_returned[i]) >= 0
            /\ CellY(d_returned[i]) >= 0
            /\ CellX(d_returned[i]) + CellW(d_returned[i]) <= d_image.original_width
            /\ CellY(d_returned[i]) + CellH(d_returned[i]) <= d_image.original_height

\* cells with odd coordinates were returned for an image that was enlarged
C27_OddCellsScaledBack ==
    /\ d_pc = "done"
    /\ d_image.original_width < UpscaleBelow
    /\ \E i \in 1..Len(d_table_cells) :
           /\ CellX(d_table_cells[i]) % 2 = 1
           /\ CellW(d_table_cells[i]) % 2 = 1
           /\ d_returned[i] # d_table_cells[i]


(***************************************************************************)
(* C28: the attempts of convert_with_retry.                                *)
(***************************************************************************)
RECURSIVE C28_Doubled(_, _)
C28_Doubled(delay, times) == IF times = 0 THEN delay ELSE 2 * C28_Doubled(delay, times - 1)

\* C28: parser.convert_pdf is called at most max_retries times, again only
\* after a connection error and a wait, the waits doubling from the first one
\* on; the pages are returned as soon as a call gives them, any other error
\* is raised as it is without another call, and the last connection error
\* ends the call with an exception
C28_RetriesOnlyConnectionErrors ==
    r_pc # "rest" =>
        /\ Len(r_outcomes) <= r_max_retries
        /\ \A i \in 1..(Len(r_outcomes) - 1) :
               r_outcomes[i] # Pages /\ IsConnectionError(r_outcomes[i])
        /\ Len(r_sleeps) = (IF r_pc = "try" THEN Len(r_outcomes) ELSE Len(r_outcomes) - 1)
        /\ \A i \in 1..Len(r_sleeps) :
               r_sleeps[i] = C28_Doubled(r_first_delay, i - 1)
        /\ r_pc \in {"returned", "raised", "sleep"} =>
               LET last == r_outcomes[Len(r_outcomes)] IN
               /\ r_pc = "returned" <=> last = Pages
               /\ r_pc = "returned" => r_result = Pages
               /\ r_pc = "sleep" =>
                      IsConnectionError(last) /\ Len(r_outcomes) < r_max_retries
               /\ r_pc = "raised" =>
                      IF IsConnectionError(last)
                      THEN Len(r_outcomes) = r_max_retries /\ r_result # last
                      ELSE r_result = last

\* two connection errors, waits of 5 and 10 seconds, then the pages
C28_ReturnedAfterTwoWaits ==
    /\ r_pc = "returned"
    /\ Len(r_outcomes) = 3
    /\ r_sleeps = <<5, 10>>


(***************************************************************************)
(* C29: the chunks of convert_r_to_rmd.                                    *)
(***************************************************************************)
C29_IsCode(line) == Strip(line) # <<>> /\ ~StartsWith(Strip(line), <<"#">>)

\* the places of the code lines in the lines read
C29_CodeRead == SelectSeq([i \in 1..Len(k_lines) |-> i], LAMBDA i : C29_IsCode(k_lines[i]))

\* the places of the code lines in the lines written
C29_CodeWritten ==
    SelectSeq([i \in 1..Len(k_written) |-> i],
              LAMBDA i : \E j \in 1..Len(k_lines) :
                             C29_IsCode(k_lines[j]) /\ k_written[i] = k_lines[j])

\* C29: code lines with two or more empty lines and nothing else between
\* them are written in separate chunks: a closing fence stands between them
C29_GapSeparatesChunks ==
    k_pc = "written" =>
        /\ Len(C29_CodeWritten) = Len(C29_CodeRead)
        /\ \A n \in 1..(Len(C29_CodeRead) - 1) :
               LET before == C29_CodeRead[n]
                   after == C29_CodeRead[n + 1]
               IN  (/\ after - before >= 3
                    /\ \A i \in (before + 1)..(after - 1) : Strip(k_lines[i]) = <<>>)
                   => \E w \in (C29_CodeWritten[n] + 1)..(C29_CodeWritten[n + 1] - 1) :
                          k_written[w] = Fence \o <<"\n">>


(***************************************************************************)
(* C30: the method that supplies the text of a PDF file.                   *)
(***************************************************************************)
C30_Order == <<"pdfplumber", "OCR", "pdfminer", "pypdf">>

\* the method raised
C30_Raised(method) ==
    CASE method = "pdfplumber" -> PlumberPages(<<>>, m_pdf.plumber).raised
      [] method = "OCR" -> OcrPages(<<>>, m_pdf.ocr).raised
      [] method = "pdfminer" -> m_pdf.miner = OcrRaise
      [] method = "pypdf" -> PypdfPages(<<>>, m_pdf.pypdf).raised

\* the text the method extracts from the file, by itself
C30_Alone(method) ==
    CASE method = "pdfplumber" -> PlumberPages(<<>>, m_pdf.plumber).text
      [] method = "OCR" -> OcrFixes(OcrPages(<<>>, m_pdf.ocr).text)
      [] method = "pdfminer" -> m_pdf.miner
      [] method = "pypdf" -> PypdfPages(<<>>, m_pdf.pypdf).text

\* the method gave no usable text: it raised, or its text is blank
C30_NoUsableText(method) ==
    C30_Raised(method) \/ Strip(C30_Alone(method)) = <<>>

\* C30: the methods are run in the order pdfplumber, OCR, pdfminer, pypdf, each
\* one only when those before it gave no usable text, and what is written is,
\* whitespace apart, the text of the last one run alone (the error text when
\* the last of the four raised)
C30_TextOfOneMethod ==
    m_pc = "written" =>
        LET last == m_tried[Len(m_tried)] IN
        /\ m_tried = SubSeq(C30_Order, 1, Len(m_tried))
        /\ \A i \in 1..(Len(m_tried) - 1) : C30_NoUsableText(m_tried[i])
        /\ IF last = "pypdf" /\ C30_Raised(last)
           THEN m_written = CouldNotExtract(m_pdf.filename)
           ELSE Words(m_written) = Words(C30_Alone(last))

====
